---- MODULE Spec2Model ----
(***************************************************************************)
(* Verification model of the genealogy report plugins:                     *)
(*   - the filter rule IsDescendantFamilyOfInLessThanNthGeneration,        *)
(*   - the descendant report LatexDownReport (numbering + writing),        *)
(*   - the ancestor report LatexUpReport (Sosa-Stradonitz numbering).      *)
(* Person handles are positive integers, 0 stands for None.  A database is *)
(* a sequence of families; a family handle is its position.                *)
(***************************************************************************)
EXTENDS Integers, Sequences, FiniteSets, TLC

VARIABLES
    db,               \* the database: sequence of [father, mother, children]
    pc,               \* position of the running handler
    stack,            \* pending recursive calls, innermost first
    \* ---- filter rule (isdescendantfamilyofinlessthannthgeneration.py)
    root_person,      \* self.root_person (0 = None)
    max_gen,          \* self.max_gen = int(self.list[1])
    inclusive,        \* int(self.list[2]) != 0
    exclude_list,     \* self.list[3].split(',')
    matches,          \* self.matches
    \* ---- both reports (latex_down.py, latex_up.py)
    center_person,    \* handle of the center person
    max_generations,  \* option "gen"
    map,              \* self.map: position key -> person handle
    cursor,           \* position of write_report's loop
    outfile,          \* the entries written to the .tex file
    \* ---- descendant report (latex_down.py)
    numbering,        \* option "numbering"
    structure,        \* option "structure"
    inc_mates,        \* option "incmates"
    gen_keys,         \* self.gen_keys: per generation the list of keys
    dnumber,          \* self.dnumber: person handle -> recorded label
    numbers_printed,  \* self.numbers_printed
    latex_output_aq,  \* self.latex_output_aq
    \* ---- ancestor report (latex_up.py)
    initial_sosa,     \* option "initial_sosa"
    dupperson,        \* option "omitda"
    listchildren,     \* option "listc"
    generation,       \* write_report's local generation
    latex,            \* self.latex
    doc,              \* families whose children write_children listed
    \* ---- Markdown exporter (obsidianreport.py)
    report_destination, \* the destination directory: file name -> lines
    frontmatter_tags, \* self.frontmatter_tags
    person_cursor,    \* position of write_report's loop over the persons
    filename,         \* the file name write_report settled on ("" = none)
    \* ---- narrator (customnarrator.py)
    person,           \* self.__person
    first_name,       \* self.__first_name
    first_name_used,  \* self.__first_name_used
    format_number,    \* self.__format_number
    verbose,          \* self.__verbose
    use_fulldate,     \* self.__use_fulldate
    empty_date,       \* self.__empty_date
    story,            \* the calls made since set_subject, with their results
    \* ---- book script (createnewbook.py)
    tex_file,         \* the lines of the main document
    maindoc,          \* extract_key_value_pairs(tex_file)
    report_file,      \* the path of the file a report wrote ("" = none)
    \* ---- index entries (latex_helper.py)
    surname,          \* the complete surname
    stripped_surname, \* format_nobiliary_particle(surname)[0]
    nobility_particle, \* format_nobiliary_particle(surname)[1]
    \* ---- biographies (latex_down.py, latex_up.py, latex_helper.py)
    filter,           \* self.filter: the filter selected for the report
    filtered_subset,  \* self.filtered_subset
    person_data,      \* the dictionary of the person being written
    biography,        \* get_latex_biography(person_data, ...)
    \* ---- media renaming script (rename_images.py)
    files,            \* the paths of the files of the file system
    media_path,       \* media handle -> the path stored in the database
    media_list,       \* person handle -> the media handles of the person
    media_cursor      \* position of the loops over persons and media

filterVars == <<root_person, max_gen, inclusive, exclude_list, matches>>
reportVars == <<center_person, max_generations, map, cursor, outfile>>
downOpts == <<numbering, structure, inc_mates>>
downVars == <<gen_keys, dnumber, numbers_printed, latex_output_aq>>

upOpts == <<initial_sosa, dupperson, listchildren>>
upVars == <<generation, latex, doc>>

obsVars == <<report_destination, frontmatter_tags, person_cursor, filename>>
narVars == <<person, first_name, first_name_used, format_number, verbose,
             use_fulldate, empty_date, story>>
bookVars == <<tex_file, maindoc, report_file>>
indexVars == <<surname, stripped_surname, nobility_particle>>

\* the variables of the handlers that are not reports or filter rules
bioVars == <<filter, filtered_subset, person_data, biography>>
renameVars == <<files, media_path, media_list, media_cursor>>
toolVars == <<obsVars, narVars, bookVars, indexVars, bioVars, renameVars>>

\* the variables of the reports and of the filter rule
treeVars == <<stack, filterVars, reportVars, downOpts, downVars, upOpts, upVars>>

vars == <<db, pc, treeVars, toolVars>>

(***************************************************************************)
(* Bounds of the model                                                     *)
(***************************************************************************)
MaxFamilies == 3      \* families per enumerated database
MaxN == 2             \* largest "Number of generations" of the filter rule
MaxGenerations == 3   \* largest value of the reports' option "gen"
ManyChildren == 10    \* children of the one large family
DeepGenerations == 48 \* length of the one long maternal line
MaxPersons == 2       \* persons of the exported database
MaxSentences == 2     \* calls of get_*_string in one story of the narrator
MaxLines == 2         \* lines of a main document

(***************************************************************************)
(* Databases.  The enumerated databases are the sub-sequences of at most   *)
(* MaxFamilies families of a catalogue over five persons; the catalogue    *)
(* has a person who is a child in two families at different depths (2),    *)
(* partners who are both descendants (4), a second family of the root (6), *)
(* a mother-only family (7) and a descent cycle (5).                       *)
(***************************************************************************)
None == 0

Fam(f, m, c) == [father |-> f, mother |-> m, children |-> c]

Catalogue ==
    << Fam(1, 0, <<2, 3>>),
       Fam(2, 0, <<3>>),
       Fam(3, 5, <<4>>),
       Fam(2, 3, <<4>>),
       Fam(4, 0, <<1>>),
       Fam(1, 5, <<4>>),
       Fam(0, 5, <<2>>) >>

IthOf(S, i) == CHOOSE x \in S : Cardinality({y \in S : y < x}) = i - 1

PickFamilies(S) == [i \in 1..Cardinality(S) |-> Catalogue[IthOf(S, i)]]

Databases ==
    { PickFamilies(S) : S \in { T \in SUBSET (1..Len(Catalogue)) :
                                  Cardinality(T) <= MaxFamilies } }

RECURSIVE SeqToSet(_)
SeqToSet(s) == IF s = <<>> THEN {} ELSE {Head(s)} \cup SeqToSet(Tail(s))

\* every person of the database d (the ones some family mentions, and 1)
People(d) ==
    {1} \cup UNION { ({d[f].father, d[f].mother} \cup SeqToSet(d[f].children)) \ {None}
                     : f \in 1..Len(d) }

(***************************************************************************)
(* Host API as the code uses it                                            *)
(***************************************************************************)
\* person.get_family_handle_list(): the families the person is a parent of
get_family_handle_list(p) ==
    SelectSeq([i \in 1..Len(db) |-> i],
              LAMBDA f : db[f].father = p \/ db[f].mother = p)

\* family.get_child_ref_list()
get_child_ref_list(f) == db[f].children

\* person.get_main_parents_family_handle(): first family listing the person
\* as a child, None when there is none
get_main_parents_family_handle(p) ==
    LET fs == { f \in 1..Len(db) : p \in SeqToSet(db[f].children) }
    IN  IF fs = {} THEN None ELSE CHOOSE f \in fs : \A g \in fs : f <= g

(***************************************************************************)
(* Filter rule IsDescendantFamilyOfInLessThanNthGeneration                 *)
(***************************************************************************)
CallFrame(p, g) == [op |-> "call", person |-> p, family |-> 0, gen |-> g]
FamFrame(p, f, g) == [op |-> "fam", person |-> p, family |-> f, gen |-> g]

\* add_matches, lines 97-100: the other parent of the family
SpouseHandle(p, f) ==
    IF p = db[f].father THEN db[f].mother ELSE db[f].father

\* an off-by-one generation test: children of generation N are still expanded
GenLimitReachedLate(gen) == gen > max_gen

\* add_matches, line 103: "if gen >= self.max_gen: continue"
GenLimitReached(gen) == gen >= max_gen

\* add_matches, line 88: the early return
AlreadyMatched(p) == p = None \/ p \in matches

\* apply(db, person)
apply(p) == p \in matches

\* prepare, lines 63-67: reset the match set and call add_matches(root, 0)
Prepare ==
    /\ pc = "prepare"
    /\ matches' = {}
    /\ stack' = <<CallFrame(root_person, 0)>>
    /\ pc' = "add_matches"
    /\ UNCHANGED <<db, root_person, max_gen, inclusive, exclude_list>>
    /\ UNCHANGED <<reportVars, downOpts, downVars, upOpts, upVars>>
    /\ UNCHANGED toolVars

\* add_matches entry: skip a person seen before, else record the person and
\* start the loop over the person's families
AddMatchesCall ==
    /\ pc = "add_matches"
    /\ stack # <<>>
    /\ Head(stack).op = "call"
    /\ LET fr == Head(stack)
           fams == get_family_handle_list(fr.person)
       IN  IF AlreadyMatched(fr.person)
           THEN /\ stack' = Tail(stack)
                /\ UNCHANGED matches
           ELSE /\ matches' = matches \cup {fr.person}
                /\ stack' = [i \in 1..Len(fams) |->
                               FamFrame(fr.person, fams[i], fr.gen)] \o Tail(stack)
    /\ UNCHANGED <<db, pc, root_person, max_gen, inclusive, exclude_list>>
    /\ UNCHANGED <<reportVars, downOpts, downVars, upOpts, upVars>>
    /\ UNCHANGED toolVars

\* one iteration of the loop over families: add the spouse, then (below the
\* generation limit) call add_matches for every child
AddMatchesFamily ==
    /\ pc = "add_matches"
    /\ stack # <<>>
    /\ Head(stack).op = "fam"
    /\ LET fr == Head(stack)
           kids == get_child_ref_list(fr.family)
       IN  /\ matches' = matches \cup {SpouseHandle(fr.person, fr.family)}
           /\ stack' = (IF GenLimitReached(fr.gen)
                        THEN <<>>
                        ELSE [i \in 1..Len(kids) |-> CallFrame(kids[i], fr.gen + 1)])
                       \o Tail(stack)
    /\ UNCHANGED <<db, pc, root_person, max_gen, inclusive, exclude_list>>
    /\ UNCHANGED <<reportVars, downOpts, downVars, upOpts, upVars>>
    /\ UNCHANGED toolVars

\* a removal loop that returns after its first iteration
RemoveFirst(set, hs) ==
    IF hs = <<>> THEN <<TRUE, set>>
    ELSE <<Head(hs) \in set, set \ {Head(hs)}>>

\* set.remove over a list of handles: <<ok, set>>; ok is FALSE on KeyError
RECURSIVE RemoveAll(_, _)
RemoveAll(set, hs) ==
    IF hs = <<>> THEN <<TRUE, set>>
    ELSE IF Head(hs) \notin set THEN <<FALSE, set>>
    ELSE RemoveAll(set \ {Head(hs)}, Tail(hs))

\* exclude_root_person: the handles it removes, in order
RootAndSpouses ==
    IF root_person = None THEN <<>>
    ELSE LET fams == get_family_handle_list(root_person)
         IN  <<root_person>> \o
             [i \in 1..Len(fams) |-> SpouseHandle(root_person, fams[i])]

\* prepare, lines 68-76: after add_matches returned
ExcludeRootPerson ==
    /\ pc = "add_matches"
    /\ stack = <<>>
    /\ IF inclusive
       THEN /\ pc' = "exclude_persons"
            /\ UNCHANGED matches
       ELSE LET r == RemoveAll(matches, RootAndSpouses)
            IN  /\ matches' = r[2]
                /\ pc' = IF r[1] THEN "exclude_persons" ELSE "KeyError"
    /\ UNCHANGED <<db, stack, root_person, max_gen, inclusive, exclude_list>>
    /\ UNCHANGED <<reportVars, downOpts, downVars, upOpts, upVars>>
    /\ UNCHANGED toolVars

\* prepare, lines 77-78 and exclude_persons
ExcludePersons ==
    /\ pc = "exclude_persons"
    /\ LET r == RemoveAll(matches, exclude_list)
       IN  /\ matches' = r[2]
           /\ pc' = IF r[1] THEN "prepared" ELSE "KeyError"
    /\ UNCHANGED <<db, stack, root_person, max_gen, inclusive, exclude_list>>
    /\ UNCHANGED <<reportVars, downOpts, downVars, upOpts, upVars>>
    /\ UNCHANGED toolVars

ExcludeChoices == {<<>>, <<2>>, <<3, 4>>}

(***************************************************************************)
(* Text.  A Python str is the sequence of its characters; str comparison   *)
(* is the lexicographic order of the code points.                          *)
(***************************************************************************)
\* an alphabet that stops at the digits
HENRY_Digits == << "1", "2", "3", "4", "5", "6", "7", "8", "9" >>

HENRY ==
    << "1", "2", "3", "4", "5", "6", "7", "8", "9",
       "A", "B", "C", "D", "E", "F", "G", "H", "I", "J", "K", "L", "M",
       "N", "O", "P", "Q", "R", "S", "T", "U", "V", "W", "X", "Y", "Z" >>

Digits == << "0", "1", "2", "3", "4", "5", "6", "7", "8", "9" >>

\* ord(c) for the characters that occur in labels
Ord(c) ==
    IF c = "(" THEN 40
    ELSE IF c = ")" THEN 41
    ELSE IF c = "." THEN 46
    ELSE IF \E i \in 1..10 : Digits[i] = c
         THEN 47 + (CHOOSE i \in 1..10 : Digits[i] = c)
    ELSE IF \E i \in 10..Len(HENRY) : HENRY[i] = c
         THEN 55 + (CHOOSE i \in 10..Len(HENRY) : HENRY[i] = c)
    ELSE 96 + (CHOOSE i \in 1..8 : <<"a", "b", "c", "d", "e", "f", "g", "h">>[i] = c)

\* Python's a > b on str
RECURSIVE StrGreater(_, _)
StrGreater(a, b) ==
    IF a = <<>> THEN FALSE
    ELSE IF b = <<>> THEN TRUE
    ELSE IF Head(a) # Head(b) THEN Ord(Head(a)) > Ord(Head(b))
    ELSE StrGreater(Tail(a), Tail(b))

\* str(n) for n >= 0
RECURSIVE Str(_)
Str(n) == IF n < 10 THEN <<Digits[n + 1]>>
          ELSE Str(n \div 10) \o <<Digits[(n % 10) + 1]>>

(***************************************************************************)
(* Descendant report LatexDownReport: numbering                            *)
(***************************************************************************)
Put(f, k, v) == (k :> v) @@ f

MaxOf(S) == CHOOSE x \in S : \A y \in S : y <= x

RECURSIVE Flatten(_)
Flatten(ss) == IF ss = <<>> THEN <<>> ELSE Head(ss) \o Flatten(Tail(ss))

\* the child handles in the order of the two nested loops
\* "for family_handle in person.get_family_handle_list():
\*      for child_ref in family.get_child_ref_list():"
ChildRefs(p) ==
    LET fams == get_family_handle_list(p)
    IN  Flatten([i \in 1..Len(fams) |-> get_child_ref_list(fams[i])])

\* a pending call apply_*_filter(person, index, pid, cur_gen); index 0 is
\* "_ix + 1" with _ix = max(self.map) taken when the call is made; ok is FALSE
\* when evaluating the pid argument raises IndexError
NumFrame(fn, p, ix, pid, g, ok) ==
    [fn |-> fn, person |-> p, index |-> ix, pid |-> pid, gen |-> g, ok |-> ok]

FrameIndex(fr) == IF fr.index # 0 THEN fr.index ELSE MaxOf(DOMAIN map) + 1

\* an early return that lets one more generation through
BeyondLimitLate(p, cur_gen) == p = None \/ cur_gen > max_generations + 1

\* the early return shared by the four filters
\* "if (not person_handle) or (cur_gen > self.max_generations): return"
BeyondLimit(p, cur_gen) == p = None \/ cur_gen > max_generations

\* self.gen_keys after "if len(self.gen_keys) < cur_gen: ... else: ..."
GenKeysAdd(gk, cur_gen, index) ==
    IF Len(gk) < cur_gen THEN Append(gk, <<index>>)
    ELSE [gk EXCEPT ![cur_gen] = Append(@, index)]

\* apply_henry_filter, lines 273-277: keep the smaller label
HenryNumber(dn, p, pid) ==
    IF p \in DOMAIN dn
    THEN IF StrGreater(dn[p], pid) THEN Put(dn, p, pid) ELSE dn
    ELSE Put(dn, p, pid)

\* pid + HENRY[index], index counted from 0
HenryPid(pid, index) ==
    IF index + 1 <= Len(HENRY) THEN pid \o <<HENRY[index + 1]>> ELSE pid

\* pid + mhenry(), index counted from 1
MHenryPid(pid, index) ==
    IF index < 10 THEN pid \o Str(index)
    ELSE pid \o <<"(">> \o Str(index) \o <<")">>

\* pid + "." + str(index), index counted from 1
DabovillePid(pid, index) == pid \o <<".">> \o Str(index)

\* the calls the loop of apply_henry_filter makes for person p
HenryCalls(p, pid, cur_gen) ==
    LET kids == ChildRefs(p)
    IN  [i \in 1..Len(kids) |->
           NumFrame("henry", kids[i], 0, HenryPid(pid, i - 1), cur_gen + 1,
                    i <= Len(HENRY))]

\* the calls the loop of apply_mhenry_filter makes: it calls
\* self.apply_henry_filter (line 319)
MHenryCalls(p, pid, cur_gen) ==
    LET kids == ChildRefs(p)
    IN  [i \in 1..Len(kids) |->
           NumFrame("henry", kids[i], 0, MHenryPid(pid, i), cur_gen + 1, TRUE)]

DabovilleCalls(p, pid, cur_gen) ==
    LET kids == ChildRefs(p)
    IN  [i \in 1..Len(kids) |->
           NumFrame("daboville", kids[i], 0, DabovillePid(pid, i), cur_gen + 1, TRUE)]

ModRegCalls(p, cur_gen) ==
    LET kids == ChildRefs(p)
    IN  [i \in 1..Len(kids) |->
           NumFrame("mod_reg", kids[i], 0, <<>>, cur_gen + 1, TRUE)]

\* write_report, lines 381-390: call the filter of the selected numbering
WriteReportDown ==
    /\ pc = "down_report"
    /\ stack' = << NumFrame(CASE numbering = "Henry" -> "henry"
                              [] numbering = "Modified Henry" -> "mhenry"
                              [] numbering = "d'Aboville" -> "daboville"
                              [] OTHER -> "mod_reg",
                            center_person, 1, <<"1">>, 1, TRUE) >>
    /\ pc' = "numbering"
    /\ UNCHANGED <<db, filterVars, reportVars, downOpts, downVars, upOpts, upVars>>
    /\ UNCHANGED toolVars

\* one call of a numbering filter: fn names the filter, number(dn, p, pid)
\* is its update of self.dnumber and calls(p, pid, gen) its recursive calls
NumberingCall(fn, number(_, _, _), calls(_, _, _)) ==
    /\ pc = "numbering"
    /\ stack # <<>>
    /\ Head(stack).fn = fn
    /\ LET fr == Head(stack)
           ix == FrameIndex(fr)
       IN  IF ~fr.ok
           THEN /\ pc' = "IndexError"
                /\ UNCHANGED <<stack, map, gen_keys, dnumber>>
           ELSE IF BeyondLimit(fr.person, fr.gen)
           THEN /\ stack' = Tail(stack)
                /\ UNCHANGED <<pc, map, gen_keys, dnumber>>
           ELSE /\ dnumber' = number(dnumber, fr.person, fr.pid)
                /\ map' = Put(map, ix, fr.person)
                /\ gen_keys' = GenKeysAdd(gen_keys, fr.gen, ix)
                /\ stack' = calls(fr.person, fr.pid, fr.gen) \o Tail(stack)
                /\ pc' = pc
    /\ UNCHANGED <<db, filterVars, center_person, max_generations, cursor, outfile>>
    /\ UNCHANGED <<downOpts, numbers_printed, latex_output_aq, upOpts, upVars>>
    /\ UNCHANGED toolVars

apply_henry_filter ==
    NumberingCall("henry", HenryNumber, HenryCalls)

apply_mhenry_filter ==
    NumberingCall("mhenry", LAMBDA dn, p, pid : Put(dn, p, pid), MHenryCalls)

apply_daboville_filter ==
    NumberingCall("daboville", LAMBDA dn, p, pid : Put(dn, p, pid), DabovilleCalls)

apply_mod_reg_filter_aux ==
    NumberingCall("mod_reg", LAMBDA dn, p, pid : dn,
                  LAMBDA p, pid, g : ModRegCalls(p, g))

\* a numbering loop without the test "not in self.dnumber"
RECURSIVE ModRegNumberAll(_, _, _)
ModRegNumberAll(keys, dn, mod_reg_number) ==
    IF keys = <<>> THEN dn
    ELSE ModRegNumberAll(Tail(keys), Put(dn, map[Head(keys)], mod_reg_number),
                         mod_reg_number + 1)

\* apply_mod_reg_filter, lines 369-375: number the persons in the order of
\* self.gen_keys, skipping a person who has a number
RECURSIVE ModRegNumber(_, _, _)
ModRegNumber(keys, dn, mod_reg_number) ==
    IF keys = <<>> THEN dn
    ELSE IF map[Head(keys)] \notin DOMAIN dn
    THEN ModRegNumber(Tail(keys), Put(dn, map[Head(keys)], mod_reg_number),
                      mod_reg_number + 1)
    ELSE ModRegNumber(Tail(keys), dn, mod_reg_number)

apply_mod_reg_filter ==
    /\ pc = "numbering"
    /\ stack = <<>>
    /\ numbering = "Record (Modified Register)"
    /\ dnumber' = ModRegNumber(Flatten(gen_keys), dnumber, 1)
    /\ pc' = "numbered"
    /\ UNCHANGED <<db, stack, filterVars, reportVars, downOpts>>
    /\ UNCHANGED <<gen_keys, numbers_printed, latex_output_aq, upOpts, upVars>>
    /\ UNCHANGED toolVars

(***************************************************************************)
(* Descendant report LatexDownReport: writing                              *)
(***************************************************************************)
alphabet == <<"a", "b", "c", "d", "e", "f", "g", "h">>

Generation(n) == [kind |-> "generation", number |-> n]
Bio(val, p) == [kind |-> "bio", kekule |-> val, person |-> p, family |-> 0]
Mate(val, p, f) == [kind |-> "mate", kekule |-> val, person |-> p, family |-> f]

\* a write_person that never takes the early return
AlwaysPrint(val, printed) == FALSE

\* write_person, line 498: "if val in self.numbers_printed: return"
AlreadyPrinted(val, printed) == \E i \in 1..Len(printed) : printed[i] = val

\* write_person, lines 517-531: the entries of the mates; kekule is
\* individual_aq["kekule"] + alphabet[partner_nr]
MateEntries(p, val) ==
    LET fams == get_family_handle_list(p)
    IN  [i \in 1..Len(fams) |->
           Mate(IF i <= Len(alphabet) THEN val \o <<alphabet[i]>> ELSE val,
                p, fams[i])]

\* the exception write_person raises for person p with number val, "" if none:
\* an int number (Record numbering) cannot be added to a letter, and alphabet
\* has eight letters
MateError(p, val) ==
    LET n == Len(get_family_handle_list(p))
    IN  IF ~inc_mates \/ n = 0 THEN ""
        ELSE IF numbering = "Record (Modified Register)" THEN "TypeError"
        ELSE IF n > Len(alphabet) THEN "IndexError"
        ELSE ""

\* write_person(key) on the state st = [printed, out, err]
WritePersonDown(st, key) ==
    LET p == map[key]
        val == dnumber[p]
    IN  IF st.err # "" THEN st
        ELSE IF AlreadyPrinted(val, st.printed) THEN st
        ELSE IF MateError(p, val) # ""
        THEN [st EXCEPT !.printed = Append(@, val), !.err = MateError(p, val)]
        ELSE [st EXCEPT !.printed = Append(@, val),
                        !.out = @ \o <<Bio(val, p)>> \o
                                (IF inc_mates THEN MateEntries(p, val) ELSE <<>>)]

RECURSIVE WritePersons(_, _)
WritePersons(st, keys) ==
    IF keys = <<>> THEN st
    ELSE WritePersons(WritePersonDown(st, Head(keys)), Tail(keys))

\* sorted(S) for a set of integers
RECURSIVE Sorted(_)
Sorted(S) ==
    IF S = {} THEN <<>>
    ELSE LET m == CHOOSE x \in S : \A y \in S : x <= y
         IN  <<m>> \o Sorted(S \ {m})

\* write_report, line 399: the numbering is done, start the loop
BeginWriteDown ==
    /\ \/ pc = "numbered"
       \/ /\ pc = "numbering"
          /\ stack = <<>>
          /\ numbering # "Record (Modified Register)"
    /\ numbers_printed' = <<>>
    /\ cursor' = 1
    /\ pc' = "write_down"
    /\ UNCHANGED <<db, stack, filterVars, center_person, max_generations, map, outfile>>
    /\ UNCHANGED <<downOpts, gen_keys, dnumber, latex_output_aq, upOpts, upVars>>
    /\ UNCHANGED toolVars

WriteState == [printed |-> numbers_printed, out |-> latex_output_aq, err |-> ""]

\* write_report, lines 402-413: one generation
WriteGeneration ==
    /\ pc = "write_down"
    /\ structure = "by generation"
    /\ cursor <= Len(gen_keys)
    /\ LET st == WritePersons([WriteState EXCEPT !.out = Append(@, Generation(cursor))],
                              gen_keys[cursor])
       IN  /\ numbers_printed' = st.printed
           /\ latex_output_aq' = st.out
           /\ pc' = IF st.err = "" THEN pc ELSE st.err
    /\ cursor' = cursor + 1
    /\ UNCHANGED <<db, stack, filterVars, center_person, max_generations, map, outfile>>
    /\ UNCHANGED <<downOpts, gen_keys, dnumber, upOpts, upVars>>
    /\ UNCHANGED toolVars

\* write_report, lines 415-416: one key of sorted(self.map)
WriteLineage ==
    /\ pc = "write_down"
    /\ structure = "by lineage"
    /\ cursor <= Cardinality(DOMAIN map)
    /\ LET st == WritePersonDown(WriteState, Sorted(DOMAIN map)[cursor])
       IN  /\ numbers_printed' = st.printed
           /\ latex_output_aq' = st.out
           /\ pc' = IF st.err = "" THEN pc ELSE st.err
    /\ cursor' = cursor + 1
    /\ UNCHANGED <<db, stack, filterVars, center_person, max_generations, map, outfile>>
    /\ UNCHANGED <<downOpts, gen_keys, dnumber, upOpts, upVars>>
    /\ UNCHANGED toolVars

(***************************************************************************)
(* latex_helper.py: the name of the file of a report                       *)
(*                                                                         *)
(* A text is the sequence of its characters.  The names of a person are    *)
(* data of the database; the model gives every person the surname "Q" and  *)
(* the first name "A." or "?".                                             *)
(***************************************************************************)
get_gramps_id(p) == <<"I">> \o Str(p)

get_nachname(p) == <<"Q">>

\* every second person has no first name but "?"
get_first_name(p) == IF p % 2 = 0 THEN <<"?">> ELSE <<"A", ".">>

RemoveChars(s, chars) == SelectSeq(s, LAMBDA c : c \notin chars)

\* re.sub(r"[\\/: \_!\?.%öäüÄÖÜß#,\(\)|]*", r"", text)
normalize_string(text) ==
    RemoveChars(text, {"\\", "/", ":", " ", "_", "!", "?", ".", "%", "ö", "ä", "ü",
                       "Ä", "Ö", "Ü", "ß", "#", ",", "(", ")", "|"})

HOME_DIR == <<"/", "h">>

\* os.path.join(a, b)
PathJoin(a, b) ==
    IF b # <<>> /\ Head(b) = "/" THEN b
    ELSE IF a = <<>> \/ a[Len(a)] = "/" THEN a \o b
    ELSE a \o <<"/">> \o b

\* the position of the last "/" of a path, 0 when it has none
LastSlash(path) ==
    LET at == { i \in 1..Len(path) : path[i] = "/" }
    IN  IF at = {} THEN 0 ELSE CHOOSE i \in at : \A j \in at : j <= i

\* os.path.basename(path)
basename(path) == SubSeq(path, LastSlash(path) + 1, Len(path))

\* os.path.dirname(path), for a path without doubled or trailing slashes
dirname(path) ==
    IF LastSlash(path) <= 1 THEN SubSeq(path, 1, LastSlash(path))
    ELSE SubSeq(path, 1, LastSlash(path) - 1)

\* os.path.normpath and os.path.normcase leave such a path of a POSIX system
\* as it is
get_filename(p, prefix, suffix, extension, dir, subfolder) ==
    LET name ==
            (IF prefix # <<>> THEN normalize_string(prefix) \o <<"-">> ELSE <<>>)
            \o normalize_string(get_nachname(p) \o <<"-">> \o get_first_name(p))
            \o <<"-">> \o get_gramps_id(p)
            \o (IF suffix # <<>> THEN <<"-">> \o normalize_string(suffix) ELSE <<>>)
            \o (IF extension # <<>> THEN <<".">> \o extension ELSE <<>>)
    IN  PathJoin(PathJoin(IF dir = <<>> THEN HOME_DIR ELSE dir, subfolder),
                 name)

\* the directory of the book's document: doc.filename is HOME_DIR
\* (createnewbook.py, line 348)
ReportDir == dirname(HOME_DIR)

\* write_report, lines 420-444: the file is named after the center person;
\* every element of latex_output_aq but the first goes to the file, then the
\* list is emptied
WriteFileDown ==
    /\ pc = "write_down"
    /\ \/ structure = "by generation" /\ cursor > Len(gen_keys)
       \/ structure = "by lineage" /\ cursor > Cardinality(DOMAIN map)
    /\ report_file' =
          get_filename(center_person, <<"l", "a", "t", "e", "x", "-", "d", "e", "s", "c">>, <<>>,
                       <<"t", "e", "x">>, ReportDir, <<>>)
    /\ outfile' = Tail(latex_output_aq)
    /\ latex_output_aq' = <<>>
    /\ pc' = "done"
    /\ UNCHANGED <<db, stack, filterVars, center_person, max_generations, map, cursor>>
    /\ UNCHANGED <<downOpts, gen_keys, dnumber, numbers_printed, upOpts, upVars>>
    /\ UNCHANGED <<obsVars, narVars, indexVars, bioVars, renameVars, tex_file, maindoc>>

\* the database with one large family: 1 -> 2 -> ManyChildren children
LargeFamily ==
    << Fam(1, 0, <<2>>), Fam(2, 0, [i \in 1..ManyChildren |-> i + 2]) >>

(***************************************************************************)
(* Unbounded integers.  Position keys and Sosa-Stradonitz numbers exceed   *)
(* 2^31 after 31 generations, so they are kept as Python keeps them, with  *)
(* arbitrary precision: a positive integer is the sequence of its binary   *)
(* digits, most significant first; <<>> is 0.                              *)
(***************************************************************************)
RECURSIVE Bits(_)
Bits(n) == IF n = 0 THEN <<>> ELSE Bits(n \div 2) \o <<n % 2>>

Zeros(n) == [i \in 1..n |-> 0]

Reverse(s) == [i \in 1..Len(s) |-> s[Len(s) + 1 - i]]

RECURSIVE Normalize(_)
Normalize(b) ==
    IF b # <<>> /\ Head(b) = 0 THEN Normalize(Tail(b)) ELSE b

\* least significant digit first, c is the carry
RECURSIVE AddDigits(_, _, _)
AddDigits(a, b, c) ==
    IF a = <<>> /\ b = <<>> THEN (IF c = 1 THEN <<1>> ELSE <<>>)
    ELSE LET x == IF a = <<>> THEN 0 ELSE Head(a)
             y == IF b = <<>> THEN 0 ELSE Head(b)
             ta == IF a = <<>> THEN <<>> ELSE Tail(a)
             tb == IF b = <<>> THEN <<>> ELSE Tail(b)
         IN  <<(x + y + c) % 2>> \o AddDigits(ta, tb, (x + y + c) \div 2)

\* least significant digit first, c is the borrow, a >= b
RECURSIVE SubDigits(_, _, _)
SubDigits(a, b, c) ==
    IF a = <<>> THEN <<>>
    ELSE LET y == IF b = <<>> THEN 0 ELSE Head(b)
             tb == IF b = <<>> THEN <<>> ELSE Tail(b)
             d == Head(a) - y - c
         IN  <<d % 2>> \o SubDigits(Tail(a), tb, IF d < 0 THEN 1 ELSE 0)

BigAdd(a, b) == Normalize(Reverse(AddDigits(Reverse(a), Reverse(b), 0)))
BigSub(a, b) == Normalize(Reverse(SubDigits(Reverse(a), Reverse(b), 0)))

\* a < b
BigLess(a, b) ==
    \/ Len(a) < Len(b)
    \/ /\ Len(a) = Len(b)
       /\ \E i \in 1..Len(a) :
            /\ a[i] < b[i]
            /\ \A j \in 1..(i - 1) : a[j] = b[j]

\* sorted(S) for a set of position keys
RECURSIVE SortedKeys(_)
SortedKeys(S) ==
    IF S = {} THEN <<>>
    ELSE LET m == CHOOSE x \in S : \A y \in S \ {x} : BigLess(x, y)
         IN  <<m>> \o SortedKeys(S \ {m})

(***************************************************************************)
(* Ancestor report LatexUpReport                                           *)
(***************************************************************************)
\* Person.FEMALE: the persons who are a mother and nowhere a father
IsFemale(p) ==
    /\ \E f \in 1..Len(db) : db[f].mother = p
    /\ \A f \in 1..Len(db) : db[f].father # p

\* __write_mate, lines 786-789: the mate of a person in a family
mate_handle(p, f) == IF IsFemale(p) THEN db[f].father ELSE db[f].mother

\* apply_filter, line 227: "index >= 2**self.max_generations"
IndexBeyond(index) == Len(index) > max_generations

\* write_report, line 239
WriteReportUp ==
    /\ pc = "up_report"
    /\ stack' = <<NumFrame("apply_filter", center_person, <<1>>, <<>>, 0, TRUE)>>
    /\ pc' = "ancestors"
    /\ UNCHANGED <<db, filterVars, reportVars, downOpts, downVars, upOpts, upVars>>
    /\ UNCHANGED toolVars

\* one call of apply_filter(person_handle, index)
apply_filter ==
    /\ pc = "ancestors"
    /\ stack # <<>>
    /\ LET fr == Head(stack)
           fam == get_main_parents_family_handle(fr.person)
       IN  IF fr.person = None \/ IndexBeyond(fr.index)
           THEN /\ stack' = Tail(stack)
                /\ UNCHANGED map
           ELSE /\ map' = Put(map, fr.index, fr.person)
                /\ stack' =
                     (IF fam = None THEN <<>>
                      ELSE << NumFrame("apply_filter", db[fam].father,
                                       Append(fr.index, 0), <<>>, 0, TRUE),
                              NumFrame("apply_filter", db[fam].mother,
                                       Append(fr.index, 1), <<>>, 0, TRUE) >>)
                     \o Tail(stack)
    /\ UNCHANGED <<db, pc, filterVars, center_person, max_generations, cursor, outfile>>
    /\ UNCHANGED <<downOpts, downVars, upOpts, upVars>>
    /\ UNCHANGED toolVars

\* bit length from which math.log(2**n - 1, 2), the quotient of two IEEE-754
\* doubles, is exactly n
FloatLogLimit == 48

\* int(math.floor(math.log(key, 2))), line 321.  The keys of the model are
\* short or of the form 2**n - 1; for those the double result is below n
\* except for 2**n - 1 with n >= FloatLogLimit, where it is n.
FloorLog2(key) ==
    IF Len(key) >= FloatLogLimit /\ \A i \in 1..Len(key) : key[i] = 1
    THEN Len(key)
    ELSE Len(key) - 1

\* _get_s_s: new_gen_start + (key - gen_start); the sum is formed before the
\* difference because key - gen_start is -1 when generation is one too large
_get_s_s(key) ==
    LET gen == FloorLog2(key)
        gen_start == <<1>> \o Zeros(gen)
        new_gen_start == Bits(initial_sosa) \o Zeros(gen)
    IN  BigSub(BigAdd(new_gen_start, key), gen_start)

\* str(n) of an unbounded integer; the decimal digits are not expanded
StrBig(n) == <<"str", n>>

\* letter(n), line 374
letter(n) ==
    IF n <= 25
    THEN << <<"a", "b", "c", "d", "e", "f", "g", "h", "i", "j", "k", "l", "m",
              "n", "o", "p", "q", "r", "s", "t", "u", "v", "w", "x", "y",
              "z">>[n + 1] >>
    ELSE <<>>

Ref(val, low, p) == [kind |-> "ref", kekule |-> val, lowest |-> low, person |-> p]

\* a duplicate search that stops after key instead of before it
LowerOrEqualKeysOf(key) ==
    { dkey \in DOMAIN map : ~BigLess(key, dkey) /\ map[dkey] = map[key] }

\* write_person, lines 340-343: the lower keys of the same person
LowerKeysOf(key) ==
    { dkey \in DOMAIN map : BigLess(dkey, key) /\ map[dkey] = map[key] }

\* the first dkey of sorted(self.map) below key with the same person,
\* <<>> when there is none
DuplicateOf(key) ==
    IF LowerKeysOf(key) = {} THEN <<>>
    ELSE Head(SortedKeys(LowerKeysOf(key)))

\* whether a primary event of the person is a baptism, burial, birth or
\* death: data of the database; every second person has such an event
has_vital_event(p) == p % 2 = 0

\* __write_mate(person, person_data), the loop over the families from the
\* family Head(fams) on: the persons whose data write_person_info puts into
\* person_data, in the order of the calls.  ind and has_info are the locals
\* of the method, which no turn of the loop resets; the "break" of line 813
\* leaves the loop over the families.
RECURSIVE write_mate(_, _, _, _)
write_mate(p, fams, ind, has_info) ==
    IF fams = <<>> THEN <<>>
    ELSE LET ind_handle == mate_handle(p, Head(fams))
             ind_now == IF ind_handle # None THEN ind_handle ELSE ind
             by_event == ind_handle # None /\ has_vital_event(ind_handle)
             family_handle == get_main_parents_family_handle(ind_handle)
             by_parents == /\ ind_handle # None
                           /\ ~(has_info \/ by_event)
                           /\ family_handle # None
                           /\ \/ db[family_handle].mother # None
                              \/ db[family_handle].father # None
             has_info_now == has_info \/ by_event
         IN  IF by_parents THEN <<>>
             ELSE (IF has_info_now THEN <<ind_now>> ELSE <<>>)
                  \o write_mate(p, Tail(fams), ind_now, has_info_now)

\* the entry of a partner: person_data_mate after __write_mate
MateUp(val, p, f) ==
    [kind |-> "mate", kekule |-> val, person |-> p, family |-> f,
     written |-> write_mate(p, get_family_handle_list(p), None, FALSE)]

\* write_person(key): [out |-> entries appended to self.latex, dup |-> result]
WritePersonUp(key) ==
    LET p == map[key]
        kekule == StrBig(_get_s_s(key))
        fams == get_family_handle_list(p)
        partners == IF key = <<1>>
                    THEN [i \in 1..Len(fams) |->
                            MateUp(kekule \o letter(i - 1), p, fams[i])]
                    ELSE <<>>
    IN  IF dupperson /\ DuplicateOf(key) # <<>>
        THEN [out |-> <<Ref(_get_s_s(key), _get_s_s(DuplicateOf(key)), p)>>,
              dup |-> 1]
        ELSE [out |-> <<Bio(kekule, p)>> \o partners, dup |-> 0]

\* write_report, lines 265-281: the families whose children are listed
\* after a person who is not a duplicate
ChildrenWritten(p, dup) ==
    IF dup = 0 /\ listchildren
    THEN SelectSeq(get_family_handle_list(p),
                   LAMBDA f : /\ \/ db[f].mother = None
                                 \/ \A k \in DOMAIN map : map[k] # db[f].mother
                                 \/ IsFemale(p)
                              /\ get_child_ref_list(f) # <<>>)
    ELSE <<>>

\* write_report, line 249: the traversal is done, start the loop
BeginWriteUp ==
    /\ pc = "ancestors"
    /\ stack = <<>>
    /\ generation' = 0
    /\ cursor' = 1
    /\ pc' = "write_up"
    /\ UNCHANGED <<db, stack, filterVars, center_person, max_generations, map, outfile>>
    /\ UNCHANGED <<downOpts, downVars, upOpts, latex, doc>>
    /\ UNCHANGED toolVars

\* write_report, lines 251-281: one key of sorted(self.map)
WriteAncestor ==
    /\ pc = "write_up"
    /\ cursor <= Cardinality(DOMAIN map)
    /\ LET key == SortedKeys(DOMAIN map)[cursor]
           head == generation = 0 \/ Len(key) > generation
           w == WritePersonUp(key)
       IN  /\ generation' = IF head THEN generation + 1 ELSE generation
           /\ latex' = latex \o (IF head THEN <<Generation(generation + 1)>> ELSE <<>>)
                             \o w.out
           /\ doc' = doc \o ChildrenWritten(map[key], w.dup)
    /\ cursor' = cursor + 1
    /\ UNCHANGED <<db, pc, stack, filterVars, center_person, max_generations, map, outfile>>
    /\ UNCHANGED <<downOpts, downVars, upOpts>>
    /\ UNCHANGED toolVars

\* write_report, lines 297-307 and latex_helper.write_output_to_file
WriteFileUp ==
    /\ pc = "write_up"
    /\ cursor > Cardinality(DOMAIN map)
    /\ report_file' =
          get_filename(center_person, <<"l", "a", "t", "e", "x", "-", "u", "p">>, <<>>,
                       <<"t", "e", "x">>, ReportDir, <<>>)
    /\ outfile' = Tail(latex)
    /\ latex' = <<>>
    /\ pc' = "done"
    /\ UNCHANGED <<db, stack, filterVars, center_person, max_generations, map, cursor>>
    /\ UNCHANGED <<downOpts, downVars, upOpts, generation, doc>>
    /\ UNCHANGED <<obsVars, narVars, indexVars, bioVars, renameVars, tex_file, maindoc>>

\* databases in which person 1 has two families: with two partners who have
\* vital events (2, 4); with a partner without one whose parents are known
\* (3) before a partner with one; with a family without partner after a
\* partner with a vital event
Remarriages ==
    { << Fam(1, 2, <<>>), Fam(1, 4, <<>>) >>,
      << Fam(1, 3, <<>>), Fam(1, 2, <<>>), Fam(0, 5, <<3>>) >>,
      << Fam(1, 2, <<>>), Fam(1, 0, <<3>>) >>,
      << Fam(1, 3, <<>>), Fam(1, 2, <<>>) >> }

\* a maternal line: person i is the child of mother i + 1, no fathers
MaternalLine ==
    [i \in 1..DeepGenerations |-> Fam(0, i + 1, <<i>>)]

(***************************************************************************)
(* Python str operations on sequences of characters                        *)
(***************************************************************************)
\* s.startswith(p), s.endswith(p)
StartsWith(s, p) == Len(p) <= Len(s) /\ SubSeq(s, 1, Len(p)) = p

EndsWith(s, p) == Len(p) <= Len(s) /\ SubSeq(s, Len(s) - Len(p) + 1, Len(s)) = p

\* s.find(p, i), 1-based; 0 when p does not occur at or after position i
Find(s, p, i) ==
    LET hits == { j \in i..(Len(s) - Len(p) + 1) : SubSeq(s, j, j + Len(p) - 1) = p }
    IN  IF hits = {} THEN 0 ELSE CHOOSE j \in hits : \A k \in hits : j <= k

\* p in s
Contains(s, p) == Find(s, p, 1) # 0

\* s.replace(old, new): the occurrences from left to right, not overlapping
RECURSIVE Replace(_, _, _)
Replace(s, old, new) ==
    LET j == Find(s, old, 1)
    IN  IF j = 0 THEN s
        ELSE SubSeq(s, 1, j - 1) \o new \o
             Replace(SubSeq(s, j + Len(old), Len(s)), old, new)

\* s.split(sep)
RECURSIVE Split(_, _)
Split(s, sep) ==
    LET j == Find(s, sep, 1)
    IN  IF j = 0 THEN <<s>>
        ELSE <<SubSeq(s, 1, j - 1)>> \o Split(SubSeq(s, j + Len(sep), Len(s)), sep)

\* s.split(sep, 1)
SplitOnce(s, sep) ==
    LET j == Find(s, sep, 1)
    IN  IF j = 0 THEN <<s>>
        ELSE <<SubSeq(s, 1, j - 1), SubSeq(s, j + Len(sep), Len(s))>>

\* s.strip(chars)
RECURSIVE StripChars(_, _)
StripChars(s, chars) ==
    IF s = <<>> THEN s
    ELSE IF Head(s) \in chars THEN StripChars(Tail(s), chars)
    ELSE IF s[Len(s)] \in chars THEN StripChars(SubSeq(s, 1, Len(s) - 1), chars)
    ELSE s

Whitespace == {" ", "\n", "\t", "\r"}

\* s.strip()
Strip(s) == StripChars(s, Whitespace)

UpperCase ==
    <<"A", "B", "C", "D", "E", "F", "G", "H", "I", "J", "K", "L", "M",
      "N", "O", "P", "Q", "R", "S", "T", "U", "V", "W", "X", "Y", "Z">>

LowerCase ==
    <<"a", "b", "c", "d", "e", "f", "g", "h", "i", "j", "k", "l", "m",
      "n", "o", "p", "q", "r", "s", "t", "u", "v", "w", "x", "y", "z">>

\* s.lower(), s.upper()
Lower(s) ==
    [i \in 1..Len(s) |->
        IF \E k \in 1..26 : UpperCase[k] = s[i]
        THEN LowerCase[CHOOSE k \in 1..26 : UpperCase[k] = s[i]]
        ELSE s[i]]

Upper(s) ==
    [i \in 1..Len(s) |->
        IF \E k \in 1..26 : LowerCase[k] = s[i]
        THEN UpperCase[CHOOSE k \in 1..26 : LowerCase[k] = s[i]]
        ELSE s[i]]

\* sep.join(parts)
RECURSIVE Join(_, _)
Join(sep, parts) ==
    IF parts = <<>> THEN <<>>
    ELSE IF Len(parts) = 1 THEN parts[1]
    ELSE parts[1] \o sep \o Join(sep, Tail(parts))

\* sorted(S) for a set of str
RECURSIVE SortedStrings(_)
SortedStrings(S) ==
    IF S = {} THEN <<>>
    ELSE LET m == CHOOSE x \in S : \A y \in S : ~StrGreater(x, y)
         IN  <<m>> \o SortedStrings(S \ {m})

(***************************************************************************)
(* Markdown exporter ObsidianReport                                        *)
(***************************************************************************)
\* the persons of the exported database, in the order of the person cursor
Persons == 1..MaxPersons

get_nick_name(p) == <<>>

\* self.gender_value_map[person.get_gender()]
gender_value_map(p) == IF p % 2 = 0 THEN <<"F">> ELSE <<"M">>

\* FilenameForbidden: the characters the re.sub of line 403 removes
determine_filename(p, extension) ==
    LET UnknownName(s) == s = <<>> \/ s = <<".", ".", ".">> \/ s = <<"?">>
        FilenameForbidden ==
            {"*", "\"", "#", "\\", "/", "<", ">", ":", "|", "?", "=", "^", "[", "]", "."}
        nachname == IF UnknownName(get_nachname(p))
                    THEN <<"U", "N", "B", "E", "K", "A", "N", "N", "T">>
                    ELSE get_nachname(p)
        vorname == IF UnknownName(get_first_name(p))
                   THEN <<"U", "N", "B", "E", "K", "A", "N", "N", "T", "-">> \o gender_value_map(p)
                   ELSE get_first_name(p)
        nickname == IF get_nick_name(p) # <<>>
                    THEN <<" ", "(">> \o get_nick_name(p) \o <<")">>
                    ELSE <<>>
        name == nachname \o <<",", " ">> \o vorname \o nickname \o
                <<" ", "(">> \o get_gramps_id(p) \o <<")">>
    IN  RemoveChars(name, FilenameForbidden) \o
        (IF extension THEN <<".", "m", "d">> ELSE <<>>)

\* write_report, lines 151-174, 192, 208: the content of a person's file;
\* the texts of the narrator and of the family section are left empty
individual_aq(p) ==
    [geschlecht |-> gender_value_map(p), GrID |-> get_gramps_id(p),
     geboren |-> <<>>, getauft |-> <<>>, gestorben |-> <<>>, begraben |-> <<>>,
     beruf |-> <<>>, nachname |-> get_nachname(p),
     vornamen |-> get_first_name(p), rufname |-> <<>>, spitzname |-> <<>>,
     titel |-> <<>>, alias |-> <<>>, suffix |-> <<>>, mutter |-> <<>>,
     vater |-> <<>>, familie |-> <<>>, notitzen |-> <<>>]

\* a line of a text file: its characters and the newline
Line(s) == s \o <<"\n">>

\* the identifier line, one symbol of the model
IDENTIFIER ==
    <<"%%Everything above this line will be refreshed automatically, do not change this line {Y8kp13Ma}%%">>

TAG_LINE == <<"t", "a", "g", "s", ":", " ", "[">>

\* line.strip("\n")
StripNewline(line) == StripChars(line, {"\n"})

\* write_output_to_file, lines 422-428: the position of the first identifier
\* line, 0 when the file has none
ResearchNotesStart(lines) ==
    LET ids == { i \in 1..Len(lines) : StripNewline(lines[i]) = IDENTIFIER }
    IN  IF ids = {} THEN 0 ELSE CHOOSE i \in ids : \A j \in ids : i <= j

\* a write that takes the research notes from the line after the identifier
ResearchNotesAfter(lines) ==
    IF ResearchNotesStart(lines) = 0 THEN <<>>
    ELSE SubSeq(lines, ResearchNotesStart(lines) + 1, Len(lines))

\* research_notes: the identifier line and everything after it
research_notes(lines) ==
    IF ResearchNotesStart(lines) = 0 THEN <<>>
    ELSE SubSeq(lines, ResearchNotesStart(lines), Len(lines))

\* lines 429-436: the tags of the last "tags: [" line above the identifier
tags_existing(lines) ==
    LET last == IF ResearchNotesStart(lines) = 0 THEN Len(lines)
                ELSE ResearchNotesStart(lines) - 1
        tl == { i \in 1..last : StartsWith(StripNewline(lines[i]), TAG_LINE) }
    IN  IF tl = {} THEN <<>>
        ELSE LET i == CHOOSE i \in tl : \A j \in tl : j <= i
             IN  Split(Replace(Replace(Replace(StripNewline(lines[i]),
                                               TAG_LINE, <<>>),
                                       <<" ">>, <<>>),
                               <<"]">>, <<>>),
                       <<",">>)

\* lines 438-439: list(set(self.frontmatter_tags + tags_existing)), sorted
tags_all(lines) ==
    SortedStrings(SeqToSet(frontmatter_tags) \cup SeqToSet(tags_existing(lines)))

\* lines 443-453
Frontmatter(tags, content) ==
    <<Line(<<"-", "-", "-">>),
      Line(TAG_LINE \o Join(<<",", " ">>, tags) \o <<"]">>),
      Line(<<"a", "l", "i", "a", "s", "e", "s", ":", " ", "[", "]">>),
      Line(<<"b", "o", "r", "n", ":", " ">>),
      Line(<<"d", "i", "e", "d", ":", " ">>),
      Line(<<"g", "e", "n", "d", "e", "r", ":", " ">> \o content.geschlecht),
      Line(<<"I", "D", ":", " ">> \o content.GrID),
      Line(<<"-", "-", "-">>),
      Line(<<>>)>>

\* lines 455-488
Biography(content) ==
    <<Line(<<"#", " ", "I", "n", "f", "o", "r", "m", "a", "t", "i", "o", "n", "e", "n">>),
      Line(<<"#", "#", " ", "B", "i", "o", "g", "r", "a", "f", "i", "s", "c", "h", "e", " ", "D", "a", "t", "e", "n">>),
      Line(<<"-", " ", "G", "e", "s", "c", "h", "l", "e", "c", "h", "t", ":", " ">> \o content.geschlecht),
      Line(<<"-", " ">> \o content.geboren),
      Line(<<"-", " ">> \o content.getauft),
      Line(<<"-", " ">> \o content.gestorben),
      Line(<<"-", " ">> \o content.begraben),
      Line(<<"-", " ", "B", "e", "r", "u", "f", ":", " ">> \o content.beruf),
      Line(<<>>),
      Line(<<"#", "#", " ", "N", "a", "m", "e">>),
      Line(<<"-", " ", "G", "e", "b", "u", "r", "t", "s", "n", "a", "m", "e", ":", " ">> \o content.nachname),
      Line(<<"-", " ", "V", "o", "r", "n", "a", "m", "e", "n", ":", " ">> \o content.vornamen),
      Line(<<"-", " ", "R", "u", "f", "n", "a", "m", "e", ":", " ">> \o content.rufname),
      Line(<<"-", " ", "S", "p", "i", "t", "z", "n", "a", "m", "e", ":", " ">> \o content.spitzname),
      Line(<<"-", " ", "T", "i", "t", "e", "l", ":", " ">> \o content.titel),
      Line(<<"-", " ", "A", "l", "i", "a", "s", ":", " ">> \o content.alias),
      Line(<<"-", " ", "S", "u", "f", "f", "i", "x", ":", " ">> \o content.suffix),
      Line(<<>>),
      Line(<<"#", "#", " ", "F", "a", "m", "i", "l", "i", "e">>),
      Line(<<"-", " ", "M", "u", "t", "t", "e", "r", ":", " ">> \o content.mutter),
      Line(<<"-", " ", "V", "a", "t", "e", "r", ":", " ">> \o content.vater),
      Line(<<>>),
      Line(<<"#", "#", " ", "P", "a", "r", "t", "n", "e", "r", "s", "c", "h", "a", "f", "t">>),
      Line(content.familie),
      Line(<<"#", "#", " ", "B", "i", "o", "g", "r", "a", "f", "i", "e">>),
      Line(content.notitzen),
      Line(<<>>)>>

\* write_output_to_file(filename, content): the lines the file has afterwards
WrittenFile(lines, content) ==
    Frontmatter(tags_all(lines), content) \o Biography(content) \o
    <<Line(<<"#", " ", "R", "e", "s", "e", "a", "r", "c", "h", " ", "N", "o", "t", "e", "s">>)>> \o
    (IF ResearchNotesStart(lines) = 0 THEN <<Line(IDENTIFIER)>> ELSE <<>>) \o
    research_notes(lines)

\* os.rename(old, new)
Rename(dir, old, new) ==
    [nm \in (DOMAIN dir \ {old}) \cup {new} |->
        IF nm = new THEN dir[old] ELSE dir[nm]]

\* lines 313-317: the files whose name holds "(" + GrID + ")"
file_list(p) ==
    { nm \in DOMAIN report_destination :
        Contains(nm, <<"(">> \o get_gramps_id(p) \o <<")">>) }

\* write_report, one turn of the loop over the persons.  The turn ends in
\* "continue" (several files), or in the "break" of line 349, which leaves
\* the loop before write_output_to_file is called.
ObsidianPerson ==
    /\ pc = "obsidian_report"
    /\ person_cursor <= MaxPersons
    /\ LET p == person_cursor
           designated_filename == determine_filename(p, TRUE)
       IN  IF Cardinality(file_list(p)) = 1
           THEN LET old == CHOOSE nm \in file_list(p) : TRUE
                IN  /\ report_destination' =
                          IF old # designated_filename
                          THEN Rename(report_destination, old, designated_filename)
                          ELSE report_destination
                    /\ filename' = designated_filename
                    /\ pc' = "exported"
                    /\ UNCHANGED person_cursor
           ELSE IF Cardinality(file_list(p)) = 0
           THEN /\ report_destination' =
                      (designated_filename :> <<>>) @@ report_destination
                /\ filename' = designated_filename
                /\ pc' = "exported"
                /\ UNCHANGED person_cursor
           ELSE /\ person_cursor' = person_cursor + 1
                /\ pc' = IF person_cursor = MaxPersons THEN "exported" ELSE pc
                /\ UNCHANGED <<report_destination, filename>>
    /\ UNCHANGED <<db, treeVars, frontmatter_tags, narVars, bookVars, indexVars, bioVars,
                 renameVars>>

\* write_output_to_file(filename, content) on an existing file
write_output_to_file ==
    /\ pc = "write_output"
    /\ filename \in DOMAIN report_destination
    /\ report_destination' =
          [report_destination EXCEPT
              ![filename] = WrittenFile(@, individual_aq(person_cursor))]
    /\ UNCHANGED <<db, pc, treeVars, frontmatter_tags, person_cursor, filename>>
    /\ UNCHANGED <<narVars, bookVars, indexVars, bioVars, renameVars>>

\* __init__, line 131: the option "Frontmatter Tags"
FrontmatterTags(option) == Split(Replace(option, <<" ">>, <<>>), <<",">>)

FrontmatterOptions == {<<>>, <<"A">>, <<"B", ",", " ", "A">>}

\* a name a person's file had before the person was renamed
OldFilename(p) ==
    <<"X", ",", " ", "A", " ", "(">> \o get_gramps_id(p) \o <<")", ".", "m", "d">>

\* files the exporter may find
FileChoices ==
    { <<>>,
      <<Line(<<"m", "y", " ", "n", "o", "t", "e", "s">>)>>,
      <<Line(TAG_LINE \o <<"C", ",", " ", "A", "]">>), Line(<<"o", "l", "d">>),
        Line(IDENTIFIER), Line(<<"t", "a", "g", "s", ":", " ", "[", "Z", "]">>), <<"n", "o", "t", "e">>>>,
      <<Line(<<"t", "a", "g", "s", ":", " ", "[", "]">>), IDENTIFIER>> }

\* ---------------------------------------------------------------------
\* CustomNarrator (src/gramps/plugins/textreport/customnarrator.py)
\*
\* A template is the sequence of the pieces of a Python format string: the
\* literal pieces and the "%(key)s" slots, in order.  A sentence is the
\* sequence of texts the "%" operator puts in their place; '' is <<>>.
\* The texts the narrator handles are kept whole (one string each).
\* ---------------------------------------------------------------------
Lit(text) == [lit |-> text, slot |-> ""]

Slot(key) == [lit |-> "", slot |-> key]

\* text % value_map
Format(text, value_map) ==
    [i \in 1..Len(text) |->
        IF text[i].slot = "" THEN text[i].lit ELSE value_map[text[i].slot]]

NAME_INDEX_INCLUDE_NAME == 0

NAME_INDEX_EXCLUDE_NAME == 1

AGE_INDEX_NO_AGE == 0

AGE_INDEX == 1

FORMAT_NORMALTEXT == 0

FORMAT_MARKDOWN == 1

FORMAT_LATEX == 2

\* The sentence templates of the module, grouped by the event they tell, one
\* field for each name of the source: a list has one template for each
\* format, the date and the age tables one list more; the child tables are
\* keyed by gender.
BornTemplates ==
    [born_full_date_with_place |->
         <<<<Lit("Geboren "), Slot("birth_date"), Lit(" in "), Slot("birth_place"), Lit(".")>>,
           <<Lit("Geboren: "), Slot("birth_date"), Lit(" in [["), Slot("birth_place"), Lit("]]")>>,
           <<Lit("\\geb\\,"), Slot("birth_date"), Lit(", \\place{"), Slot("birth_place"), Lit("},")>>>>,
     born_modified_date_with_place |->
         <<<<Lit("Geboren "), Slot("modified_date"), Lit(" in "), Slot("birth_place"), Lit(".")>>,
           <<Lit("Geboren: "), Slot("modified_date"), Lit(" in [["), Slot("birth_place"), Lit("]]")>>,
           <<Lit("\\geb\\,"), Slot("modified_date"), Lit(", place{"), Slot("birth_place"), Lit("},")>>>>,
     born_full_date_no_place |->
         <<<<Lit("Geboren "), Slot("birth_date"), Lit(".")>>,
           <<Lit("Geboren: "), Slot("birth_date")>>,
           <<Lit("\\geb\\,"), Slot("birth_date"), Lit(",")>>>>,
     born_modified_date_no_place |->
         <<<<Lit("Geboren "), Slot("modified_date"), Lit(".")>>,
           <<Lit("Geboren: "), Slot("modified_date")>>,
           <<Lit("\\geb\\,"), Slot("modified_date"), Lit(",")>>>>,
     born_partial_date_with_place |->
         <<<<Lit("Geboren "), Slot("month_year"), Lit(" in "), Slot("birth_place"), Lit(".")>>,
           <<Lit("Geboren: "), Slot("month_year"), Lit(" in [["), Slot("birth_place"), Lit("]]")>>,
           <<Lit("\\geb\\,"), Slot("month_year"), Lit(" in "), Slot("birth_place"), Lit(",")>>>>,
     born_partial_date_no_place |->
         <<<<Lit("Geboren "), Slot("month_year"), Lit(".")>>,
           <<Lit("Geboren: "), Slot("month_year")>>,
           <<Lit("\\geb\\,"), Slot("month_year"), Lit(",")>>>>,
     born_no_date_with_place |->
         <<<<Lit("Geboren in "), Slot("birth_place"), Lit(".")>>,
           <<Lit("Geboren: in [["), Slot("birth_place"), Lit("]]")>>,
           <<Lit("\\geb\\,\\place{"), Slot("birth_place"), Lit("},")>>>>]

DiedTemplates ==
    [died_full_date_with_place |->
         <<<<<<Lit("Gestorben "), Slot("death_date"), Lit(" in "), Slot("death_place"), Lit(".")>>,
             <<Lit("Gestorben "), Slot("death_date"), Lit(" in "), Slot("death_place"), Lit(" ("), Slot("age"), Lit(").")>>>>,
           <<<<Lit("Gestorben: "), Slot("death_date"), Lit(" in [["), Slot("death_place"), Lit("]]")>>,
             <<Lit("Gestorben: "), Slot("death_date"), Lit(" in [["), Slot("death_place"), Lit("]] ("), Slot("age"), Lit(")")>>>>,
           <<<<Lit("\\tod\\,"), Slot("death_date"), Lit(", \\place{"), Slot("death_place"), Lit("},")>>,
             <<Lit("\\tod\\,"), Slot("death_date"), Lit(", \\place{"), Slot("death_place"), Lit("} ("), Slot("age"), Lit("),")>>>>>>,
     died_modified_date_with_place |->
         <<<<<<Lit("Gestorben "), Slot("death_date"), Lit(" in "), Slot("death_place"), Lit(".")>>,
             <<Lit("Gestorben "), Slot("death_date"), Lit(" in "), Slot("death_place"), Lit(" ("), Slot("age"), Lit(").")>>>>,
           <<<<Lit("Gestorben: "), Slot("death_date"), Lit(" in [["), Slot("death_place"), Lit("]]")>>,
             <<Lit("Gestorben: "), Slot("death_date"), Lit(" in [["), Slot("death_place"), Lit("]] ("), Slot("age"), Lit(")")>>>>,
           <<<<Lit("\\tod\\,"), Slot("death_date"), Lit(", \\place{"), Slot("death_place"), Lit("},")>>,
             <<Lit("\\tod\\,"), Slot("death_date"), Lit(", \\place{"), Slot("death_place"), Lit("} ("), Slot("age"), Lit("),")>>>>>>,
     died_full_date_no_place |->
         <<<<<<Lit("Gestorben "), Slot("death_date"), Lit(".")>>,
             <<Lit("Gestorben "), Slot("death_date"), Lit(" ("), Slot("age"), Lit(").")>>>>,
           <<<<Lit("Gestorben: "), Slot("death_date")>>,
             <<Lit("Gestorben: "), Slot("death_date"), Lit(" ("), Slot("age"), Lit(")")>>>>,
           <<<<Lit("\\tod\\,"), Slot("death_date"), Lit(",")>>,
             <<Lit("\\tod\\,"), Slot("death_date"), Lit(" ("), Slot("age"), Lit("),")>>>>>>,
     died_modified_date_no_place |->
         <<<<<<Lit("Gestorben "), Slot("death_date"), Lit(".")>>,
             <<Lit("Gestorben "), Slot("death_date"), Lit(" ("), Slot("age"), Lit(").")>>>>,
           <<<<Lit("Gestorben: "), Slot("death_date")>>,
             <<Lit("Gestorben: "), Slot("death_date"), Lit(" ("), Slot("age"), Lit(")")>>>>,
           <<<<Lit("\\tod\\,"), Slot("death_date"), Lit(",")>>,
             <<Lit("\\tod\\,"), Slot("death_date"), Lit(" ("), Slot("age"), Lit("),")>>>>>>,
     died_partial_date_with_place |->
         <<<<<<Lit("Gestorben "), Slot("month_year"), Lit(" in "), Slot("death_place"), Lit(".")>>,
             <<Lit("Gestorben "), Slot("month_year"), Lit(" in "), Slot("death_place"), Lit(" ("), Slot("age"), Lit(").")>>>>,
           <<<<Lit("Gestorben: "), Slot("month_year"), Lit(" in [["), Slot("death_place"), Lit("]]")>>,
             <<Lit("Gestorben: "), Slot("month_year"), Lit(" in [["), Slot("death_place"), Lit("]] ("), Slot("age"), Lit(")")>>>>,
           <<<<Lit("\\tod\\,"), Slot("month_year"), Lit(", \\place{"), Slot("death_place"), Lit("},")>>,
             <<Lit("\\tod\\,"), Slot("month_year"), Lit(", \\place{"), Slot("death_place"), Lit("} ("), Slot("age"), Lit("),")>>>>>>,
     died_partial_date_no_place |->
         <<<<<<Lit("Gestorben "), Slot("month_year"), Lit(".")>>,
             <<Lit("Gestorben "), Slot("month_year"), Lit(" ("), Slot("age"), Lit(").")>>>>,
           <<<<Lit("Gestorben: "), Slot("month_year")>>,
             <<Lit("Gestorben: "), Slot("month_year"), Lit(" ("), Slot("age"), Lit(")")>>>>,
           <<<<Lit("\\tod\\,"), Slot("month_year"), Lit(",")>>,
             <<Lit("\\tod\\,"), Slot("month_year"), Lit(" ("), Slot("age"), Lit("),")>>>>>>,
     died_no_date_with_place |->
         <<<<<<Lit("Gestorben in "), Slot("death_place"), Lit(".")>>,
             <<Lit("Gestorben in "), Slot("death_place"), Lit(" ("), Slot("age"), Lit(").")>>>>,
           <<<<Lit("Gestorben: in [["), Slot("death_place"), Lit("]]")>>,
             <<Lit("Gestorben: in [["), Slot("death_place"), Lit("]] ("), Slot("age"), Lit(")")>>>>,
           <<<<Lit("\\tod\\,\\place{"), Slot("death_place"), Lit("},")>>,
             <<Lit("\\tod\\,\\place{"), Slot("death_place"), Lit("} ("), Slot("age"), Lit("),")>>>>>>,
     died_no_date_no_place |->
         <<<<<<>>,
             <<Lit("Gestorben ("), Slot("age"), Lit(").")>>>>,
           <<<<>>,
             <<Lit("Gestorben: ("), Slot("age"), Lit(")")>>>>,
           <<<<>>,
             <<Lit("\\tod\\,("), Slot("age"), Lit("),")>>>>>>]

BuriedTemplates ==
    [buried_full_date_place |->
         <<<<Lit("Begraben "), Slot("burial_date"), Lit(" in "), Slot("burial_place"), Slot("endnotes"), Lit(".")>>,
           <<Lit("Begraben: "), Slot("burial_date"), Lit(" in [["), Slot("burial_place"), Lit("]]"), Slot("endnotes")>>,
           <<Lit("\\begraben\\,"), Slot("burial_date"), Lit(", \\place{"), Slot("burial_place"), Lit("}"), Slot("endnotes"), Lit(",")>>>>,
     buried_full_date_no_place |->
         <<<<Lit("Begraben "), Slot("burial_date"), Slot("endnotes"), Lit(".")>>,
           <<Lit("Begraben: "), Slot("burial_date"), Slot("endnotes")>>,
           <<Lit("\\begraben\\,"), Slot("burial_date"), Slot("endnotes"), Lit(",")>>>>,
     buried_partial_date_place |->
         <<<<Lit("Begraben "), Slot("month_year"), Lit(" in "), Slot("burial_place"), Slot("endnotes"), Lit(".")>>,
           <<Lit("Begraben: "), Slot("month_year"), Lit(" in [["), Slot("burial_place"), Lit("]]"), Slot("endnotes")>>,
           <<Lit("\\begraben\\,"), Slot("month_year"), Lit(", \\place{"), Slot("burial_place"), Lit("}"), Slot("endnotes"), Lit(",")>>>>,
     buried_partial_date_no_place |->
         <<<<Lit("Begraben "), Slot("month_year"), Slot("endnotes"), Lit(".")>>,
           <<Lit("Begraben: "), Slot("month_year"), Slot("endnotes")>>,
           <<Lit("\\begraben\\,"), Slot("month_year"), Slot("endnotes"), Lit(",")>>>>,
     buried_modified_date_place |->
         <<<<Lit("Begraben "), Slot("modified_date"), Lit(" in "), Slot("burial_place"), Slot("endnotes"), Lit(".")>>,
           <<Lit("Begraben: "), Slot("modified_date"), Lit(" in [["), Slot("burial_place"), Lit("]]"), Slot("endnotes")>>,
           <<Lit("\\begraben\\,"), Slot("modified_date"), Lit(", \\place{"), Slot("burial_place"), Lit("}"), Slot("endnotes"), Lit(",")>>>>,
     buried_modified_date_no_place |->
         <<<<Lit("Begraben "), Slot("modified_date"), Slot("endnotes"), Lit(".")>>,
           <<Lit("Begraben: "), Slot("modified_date"), Slot("endnotes")>>,
           <<Lit("\\begraben\\,"), Slot("modified_date"), Slot("endnotes"), Lit(",")>>>>,
     buried_no_date_place |->
         <<<<Lit("Begraben in "), Slot("burial_place"), Slot("endnotes"), Lit(".")>>,
           <<Lit("Begraben: in [["), Slot("burial_place"), Lit("]]"), Slot("endnotes")>>,
           <<Lit("\\begraben\\,\\place{"), Slot("burial_place"), Lit("}"), Slot("endnotes"), Lit(",")>>>>,
     buried_no_date_no_place |->
         <<<<Lit("Begraben"), Slot("endnotes"), Lit(".")>>,
           <<Lit("Begraben:"), Slot("endnotes")>>,
           <<Lit("\\begraben\\,(endnotes)s,")>>>>]

BaptisedTemplates ==
    [baptised_full_date_place |->
         <<<<Lit("Getauft "), Slot("baptism_date"), Lit(" in "), Slot("baptism_place"), Slot("endnotes"), Lit(".")>>,
           <<Lit("Getauft: "), Slot("baptism_date"), Lit(" in [["), Slot("baptism_place"), Lit("]]"), Slot("endnotes")>>,
           <<Lit("\\taufe\\,"), Slot("baptism_date"), Lit(", \\place{"), Slot("baptism_place"), Lit("}"), Slot("endnotes"), Lit(",")>>>>,
     baptised_full_date_no_place |->
         <<<<Lit("Getauft "), Slot("baptism_date"), Slot("endnotes"), Lit(".")>>,
           <<Lit("Getauft: "), Slot("baptism_date"), Slot("endnotes")>>,
           <<Lit("\\taufe\\,"), Slot("baptism_date"), Slot("endnotes"), Lit(",")>>>>,
     baptised_partial_date_place |->
         <<<<Lit("Getauft "), Slot("month_year"), Lit(" in "), Slot("baptism_place"), Slot("endnotes"), Lit(".")>>,
           <<Lit("Getauft: "), Slot("month_year"), Lit(" in [["), Slot("baptism_place"), Lit("]]"), Slot("endnotes")>>,
           <<Lit("\\taufe\\,"), Slot("month_year"), Lit(", \\place{"), Slot("baptism_place"), Lit("}"), Slot("endnotes"), Lit(",")>>>>,
     baptised_partial_date_no_place |->
         <<<<Lit("Getauft "), Slot("month_year"), Slot("endnotes"), Lit(".")>>,
           <<Lit("Getauft: "), Slot("month_year"), Slot("endnotes")>>,
           <<Lit("\\taufe\\,"), Slot("month_year"), Slot("endnotes"), Lit(",")>>>>,
     baptised_modified_date_place |->
         <<<<Lit("Getauft "), Slot("modified_date"), Lit(" in "), Slot("baptism_place"), Slot("endnotes"), Lit(".")>>,
           <<Lit("Getauft: "), Slot("modified_date"), Lit(" in [["), Slot("baptism_place"), Lit("]]"), Slot("endnotes")>>,
           <<Lit("\\taufe\\,"), Slot("modified_date"), Lit(", \\place{"), Slot("baptism_place"), Lit("}"), Slot("endnotes"), Lit(",")>>>>,
     baptised_modified_date_no_place |->
         <<<<Lit("Getauft "), Slot("modified_date"), Slot("endnotes"), Lit(".")>>,
           <<Lit("Getauft: "), Slot("modified_date"), Slot("endnotes")>>,
           <<Lit("\\taufe\\,"), Slot("modified_date"), Slot("endnotes"), Lit(",")>>>>,
     baptised_no_date_place |->
         <<<<Lit("Getauft in "), Slot("baptism_place"), Slot("endnotes"), Lit(".")>>,
           <<Lit("Getauft: in [["), Slot("baptism_place"), Lit("]]"), Slot("endnotes")>>,
           <<Lit("\\taufe\\,\\place{"), Slot("baptism_place"), Lit("}"), Slot("endnotes"), Lit(",")>>>>,
     baptised_no_date_no_place |->
         <<<<Lit("Getauft"), Slot("endnotes"), Lit(".")>>,
           <<Lit("Getauft"), Slot("endnotes")>>,
           <<Lit("\\taufe"), Slot("endnotes"), Lit(",")>>>>]

ChristenedTemplates ==
    [christened_full_date_place |->
         <<<<Lit("Getauft "), Slot("christening_date"), Lit(" in "), Slot("christening_place"), Slot("endnotes"), Lit(".")>>,
           <<Lit("Getauft: "), Slot("christening_date"), Lit(" in [["), Slot("christening_place"), Lit("]]"), Slot("endnotes")>>,
           <<Lit("\\taufe\\,"), Slot("christening_date"), Lit(", \\place{"), Slot("christening_place"), Lit("}"), Slot("endnotes"), Lit(",")>>>>,
     christened_full_date_no_place |->
         <<<<Lit("Getauft "), Slot("christening_date"), Slot("endnotes"), Lit(".")>>,
           <<Lit("Getauft: "), Slot("christening_date"), Slot("endnotes")>>,
           <<Lit("\\taufe\\,"), Slot("christening_date"), Slot("endnotes"), Lit(",")>>>>,
     christened_partial_date_place |->
         <<<<Lit("Getauft "), Slot("month_year"), Lit(" in "), Slot("christening_place"), Slot("endnotes"), Lit(".")>>,
           <<Lit("Getauft: "), Slot("month_year"), Lit(" in [["), Slot("christening_place"), Lit("]]"), Slot("endnotes")>>,
           <<Lit("\\taufe\\,"), Slot("month_year"), Lit(", \\place{"), Slot("christening_place"), Lit("}"), Slot("endnotes"), Lit(",")>>>>,
     christened_partial_date_no_place |->
         <<<<Lit("Getauft "), Slot("month_year"), Slot("endnotes"), Lit(".")>>,
           <<Lit("Getauft: "), Slot("month_year"), Slot("endnotes")>>,
           <<Lit("\\taufe\\,"), Slot("month_year"), Slot("endnotes"), Lit(",")>>>>,
     christened_modified_date_place |->
         <<<<Lit("Getauft "), Slot("modified_date"), Lit(" in "), Slot("christening_place"), Slot("endnotes"), Lit(".")>>,
           <<Lit("Getauft: "), Slot("modified_date"), Lit(" in [["), Slot("christening_place"), Lit("]]"), Slot("endnotes")>>,
           <<Lit("\\taufe\\,"), Slot("modified_date"), Lit(", \\place{"), Slot("christening_place"), Lit("}"), Slot("endnotes"), Lit(",")>>>>,
     christened_modified_date_no_place |->
         <<<<Lit("Getauft "), Slot("modified_date"), Slot("endnotes"), Lit(".")>>,
           <<Lit("Getauft: "), Slot("modified_date"), Slot("endnotes")>>,
           <<Lit("\\taufe\\,"), Slot("modified_date"), Slot("endnotes"), Lit(",")>>>>,
     christened_no_date_place |->
         <<<<Lit("Getauft in "), Slot("christening_place"), Slot("endnotes"), Lit(".")>>,
           <<Lit("Getauft: in [["), Slot("christening_place"), Lit("]]"), Slot("endnotes")>>,
           <<Lit("\\taufe\\,\\place{"), Slot("christening_place"), Lit("}"), Slot("endnotes"), Lit(",")>>>>,
     christened_no_date_no_place |->
         <<<<Lit("Getauft"), Slot("endnotes"), Lit(".")>>,
           <<Lit("Getauft"), Slot("endnotes")>>,
           <<Lit("\\taufe"), Slot("endnotes"), Lit(",")>>>>]

MarriageTemplates ==
    LET first ==
        [marriage_first_date_place |->
             <<<<<<Lit("Heiratete "), Slot("spouse"), Lit(" "), Slot("partial_date"), Lit(" in "), Slot("place"), Slot("endnotes"), Lit(".")>>,
                 <<Lit("Heiratete "), Slot("spouse"), Lit(" "), Slot("full_date"), Lit(" in "), Slot("place"), Slot("endnotes"), Lit(".")>>,
                 <<Lit("Heiratete "), Slot("spouse"), Lit(" "), Slot("modified_date"), Lit(" in "), Slot("place"), Slot("endnotes"), Lit(".")>>>>,
               <<<<Lit("Hochzeit: "), Slot("spouse"), Lit(" "), Slot("partial_date"), Lit(" in "), Slot("place"), Slot("endnotes")>>,
                 <<Lit("Hochzeit: "), Slot("spouse"), Lit(" "), Slot("full_date"), Lit(" in "), Slot("place"), Slot("endnotes")>>,
                 <<Lit("Hochzeit: "), Slot("spouse"), Lit(" "), Slot("modified_date"), Lit(" in "), Slot("place"), Slot("endnotes")>>>>,
               <<<<Lit("\\heirat\\,"), Slot("spouse"), Lit(", "), Slot("partial_date"), Lit(", \\place{"), Slot("place"), Lit("}"), Slot("endnotes"), Lit(".")>>,
                 <<Lit("\\heirat\\,"), Slot("spouse"), Lit(", "), Slot("full_date"), Lit(", \\place{"), Slot("place"), Lit("}"), Slot("endnotes"), Lit(".")>>,
                 <<Lit("\\heirat\\,"), Slot("spouse"), Lit(", "), Slot("modified_date"), Lit(", \\place{"), Slot("place"), Lit("}"), Slot("endnotes"), Lit(".")>>>>>>,
         marriage_first_date |->
             <<<<<<Lit("Heiratete "), Slot("spouse"), Lit(" "), Slot("partial_date"), Slot("endnotes"), Lit(".")>>,
                 <<Lit("Heiratete "), Slot("spouse"), Lit(" "), Slot("full_date"), Slot("endnotes"), Lit(".")>>,
                 <<Lit("Heiratete "), Slot("spouse"), Lit(" "), Slot("modified_date"), Slot("endnotes"), Lit(".")>>>>,
               <<<<Lit("Hochzeit: "), Slot("spouse"), Lit(" "), Slot("partial_date"), Slot("endnotes")>>,
                 <<Lit("Hochzeit: "), Slot("spouse"), Lit(" "), Slot("full_date"), Slot("endnotes")>>,
                 <<Lit("Hochzeit: "), Slot("spouse"), Lit(" "), Slot("modified_date"), Slot("endnotes")>>>>,
               <<<<Lit("\\heirat\\,"), Slot("spouse"), Lit(", "), Slot("partial_date"), Slot("endnotes"), Lit(".")>>,
                 <<Lit("\\heirat\\,"), Slot("spouse"), Lit(", "), Slot("full_date"), Slot("endnotes"), Lit(".")>>,
                 <<Lit("\\heirat\\,"), Slot("spouse"), Lit(", "), Slot("modified_date"), Slot("endnotes"), Lit(".")>>>>>>,
         marriage_first_place |->
             <<<<Lit("Heiratete "), Slot("spouse"), Lit(" in "), Slot("place"), Slot("endnotes"), Lit(".")>>,
               <<Lit("Hochzeit: "), Slot("spouse"), Lit(" in "), Slot("place"), Slot("endnotes")>>,
               <<Lit("\\heirat\\,"), Slot("spouse"), Lit(", \\place{"), Slot("place"), Lit("}"), Slot("endnotes"), Lit(".")>>>>,
         marriage_first_only |->
             <<<<Lit("Heiratete "), Slot("spouse"), Slot("endnotes"), Lit(".")>>,
               <<Lit("Hochzeit: "), Slot("spouse"), Slot("endnotes")>>,
               <<Lit("\\heirat\\,"), Slot("spouse"), Slot("endnotes"), Lit(".")>>>>,
         unmarried_first_date_place |->
             <<<<<<Lit("Partner: "), Slot("spouse"), Lit(" "), Slot("partial_date"), Lit(" in "), Slot("place"), Slot("endnotes"), Lit(".")>>,
                 <<Lit("Partner: "), Slot("spouse"), Lit(" "), Slot("full_date"), Lit(" in "), Slot("place"), Slot("endnotes"), Lit(".")>>,
                 <<Lit("Partner: "), Slot("spouse"), Lit(" "), Slot("modified_date"), Lit(" in "), Slot("place"), Slot("endnotes"), Lit(".")>>>>,
               <<<<Lit("Partner: "), Slot("spouse"), Lit(" "), Slot("partial_date"), Lit(" in "), Slot("place"), Slot("endnotes")>>,
                 <<Lit("Partner: "), Slot("spouse"), Lit(" "), Slot("full_date"), Lit(" in "), Slot("place"), Slot("endnotes")>>,
                 <<Lit("Partner: "), Slot("spouse"), Lit(" "), Slot("modified_date"), Lit(" in "), Slot("place"), Slot("endnotes")>>>>,
               <<<<Lit("\\partner\\,"), Slot("spouse"), Lit(", "), Slot("partial_date"), Lit(", \\place{"), Slot("place"), Lit("}"), Slot("endnotes"), Lit(".")>>,
                 <<Lit("\\partner\\,"), Slot("spouse"), Lit(", "), Slot("full_date"), Lit(", \\place{"), Slot("place"), Lit("}"), Slot("endnotes"), Lit(".")>>,
                 <<Lit("\\partner\\,"), Slot("spouse"), Lit(", "), Slot("modified_date"), Lit(", \\place{"), Slot("place"), Lit("}"), Slot("endnotes"), Lit(".")>>>>>>,
         unmarried_first_date |->
             <<<<<<Lit("Partner: "), Slot("spouse"), Lit(" "), Slot("partial_date"), Slot("endnotes"), Lit(".")>>,
                 <<Lit("Partner: "), Slot("spouse"), Lit(" "), Slot("full_date"), Slot("endnotes"), Lit(".")>>,
                 <<Lit("Partner: "), Slot("spouse"), Lit(" "), Slot("modified_date"), Slot("endnotes"), Lit(".")>>>>,
               <<<<Lit("Partner: "), Slot("spouse"), Lit(" "), Slot("partial_date"), Slot("endnotes")>>,
                 <<Lit("Partner: "), Slot("spouse"), Lit(" "), Slot("full_date"), Slot("endnotes")>>,
                 <<Lit("Partner: "), Slot("spouse"), Lit(" "), Slot("modified_date"), Slot("endnotes")>>>>,
               <<<<Lit("\\partner\\,"), Slot("spouse"), Lit(", "), Slot("partial_date"), Slot("endnotes"), Lit(".")>>,
                 <<Lit("\\partner\\,"), Slot("spouse"), Lit(", "), Slot("full_date"), Slot("endnotes"), Lit(".")>>,
                 <<Lit("\\partner\\,"), Slot("spouse"), Lit(", "), Slot("modified_date"), Slot("endnotes"), Lit(".")>>>>>>,
         unmarried_first_place |->
             <<<<Lit("Partner: "), Slot("spouse"), Lit(" in "), Slot("place"), Slot("endnotes"), Lit(".")>>,
               <<Lit("Partner: "), Slot("spouse"), Lit(" in "), Slot("place"), Slot("endnotes")>>,
               <<Lit("\\partner\\,"), Slot("spouse"), Lit(", \\place{"), Slot("place"), Lit("}"), Slot("endnotes"), Lit(".")>>>>,
         unmarried_first_only |->
             <<<<Lit("Partner: "), Slot("spouse"), Slot("endnotes"), Lit(".")>>,
               <<Lit("Partner: "), Slot("spouse"), Slot("endnotes")>>,
               <<Lit("\\partner\\,"), Slot("spouse"), Slot("endnotes"), Lit(".")>>>>]
        same ==
            [marriage_also_date_place |-> "marriage_first_date_place",
             marriage_also_date |-> "marriage_first_date",
             marriage_also_place |-> "marriage_first_place",
             marriage_also_only |-> "marriage_first_only",
             unmarried_also_date_place |-> "unmarried_first_date_place",
             unmarried_also_date |-> "unmarried_first_date",
             unmarried_also_place |-> "unmarried_first_place",
             unmarried_also_only |-> "unmarried_first_only",
             relationship_first_date_place |-> "unmarried_first_date_place",
             relationship_first_date |-> "unmarried_first_date",
             relationship_first_place |-> "unmarried_first_place",
             relationship_first_only |-> "unmarried_first_only",
             relationship_also_date_place |-> "relationship_first_date_place",
             relationship_also_date |-> "relationship_first_date",
             relationship_also_place |-> "relationship_first_place",
             relationship_also_only |-> "relationship_first_only"]
        base(name) == IF same[name] \in DOMAIN first THEN same[name]
                      ELSE same[same[name]]
    IN  [name \in DOMAIN first \cup DOMAIN same |->
            first[IF name \in DOMAIN first THEN name ELSE base(name)]]

ChildTemplates ==
    [child_father_mother |->
         [UNKNOWN |-> <<<<<<Slot("male_name"), Lit(" is the child of "), Slot("father"), Lit(" and "), Slot("mother"), Lit(".")>>,
                           <<Slot("male_name"), Lit(" was the child of "), Slot("father"), Lit(" and "), Slot("mother"), Lit(".")>>>>,
                         <<<<Lit("This person is the child of "), Slot("father"), Lit(" and "), Slot("mother"), Lit(".")>>,
                           <<Lit("This person was the child of "), Slot("father"), Lit(" and "), Slot("mother"), Lit(".")>>>>,
                         <<Lit("Child of "), Slot("father"), Lit(" and "), Slot("mother"), Lit(".")>>>>,
          MALE |-> <<<<<<Slot("male_name"), Lit(" is the son of "), Slot("father"), Lit(" and "), Slot("mother"), Lit(".")>>,
                        <<Slot("male_name"), Lit(" was the son of "), Slot("father"), Lit(" and "), Slot("mother"), Lit(".")>>>>,
                      <<<<Lit("He is the son of "), Slot("father"), Lit(" and "), Slot("mother"), Lit(".")>>,
                        <<Lit("He was the son of "), Slot("father"), Lit(" and "), Slot("mother"), Lit(".")>>>>,
                      <<Lit("Son of "), Slot("father"), Lit(" and "), Slot("mother"), Lit(".")>>>>,
          FEMALE |-> <<<<<<Slot("female_name"), Lit(" is the daughter of "), Slot("father"), Lit(" and "), Slot("mother"), Lit(".")>>,
                          <<Slot("female_name"), Lit(" was the daughter of "), Slot("father"), Lit(" and "), Slot("mother"), Lit(".")>>>>,
                        <<<<Lit("She is the daughter of "), Slot("father"), Lit(" and "), Slot("mother"), Lit(".")>>,
                          <<Lit("She was the daughter of "), Slot("father"), Lit(" and "), Slot("mother"), Lit(".")>>>>,
                        <<Lit("Daughter of "), Slot("father"), Lit(" and "), Slot("mother"), Lit(".")>>>>],
     child_father |->
         [UNKNOWN |-> <<<<<<Slot("male_name"), Lit(" is the child of "), Slot("father"), Lit(".")>>,
                           <<Slot("male_name"), Lit(" was the child of "), Slot("father"), Lit(".")>>>>,
                         <<<<Lit("This person is the child of "), Slot("father"), Lit(".")>>,
                           <<Lit("This person was the child of "), Slot("father"), Lit(".")>>>>,
                         <<Lit("Child of "), Slot("father"), Lit(".")>>>>,
          MALE |-> <<<<<<Slot("male_name"), Lit(" is the son of "), Slot("father"), Lit(".")>>,
                        <<Slot("male_name"), Lit(" was the son of "), Slot("father"), Lit(".")>>>>,
                      <<<<Lit("He is the son of "), Slot("father"), Lit(".")>>,
                        <<Lit("He was the son of "), Slot("father"), Lit(".")>>>>,
                      <<Lit("Son of "), Slot("father"), Lit(".")>>>>,
          FEMALE |-> <<<<<<Slot("female_name"), Lit(" is the daughter of "), Slot("father"), Lit(".")>>,
                          <<Slot("female_name"), Lit(" was the daughter of "), Slot("father"), Lit(".")>>>>,
                        <<<<Lit("She is the daughter of "), Slot("father"), Lit(".")>>,
                          <<Lit("She was the daughter of "), Slot("father"), Lit(".")>>>>,
                        <<Lit("Daughter of "), Slot("father"), Lit(".")>>>>],
     child_mother |->
         [UNKNOWN |-> <<<<<<Slot("male_name"), Lit(" is the child of "), Slot("mother"), Lit(".")>>,
                           <<Slot("male_name"), Lit(" was the child of "), Slot("mother"), Lit(".")>>>>,
                         <<<<Lit("This person is the child of "), Slot("mother"), Lit(".")>>,
                           <<Lit("This person was the child of "), Slot("mother"), Lit(".")>>>>,
                         <<Lit("Child of "), Slot("mother"), Lit(".")>>>>,
          MALE |-> <<<<<<Slot("male_name"), Lit(" is the son of "), Slot("mother"), Lit(".")>>,
                        <<Slot("male_name"), Lit(" was the son of "), Slot("mother"), Lit(".")>>>>,
                      <<<<Lit("He is the son of "), Slot("mother"), Lit(".")>>,
                        <<Lit("He was the son of "), Slot("mother"), Lit(".")>>>>,
                      <<Lit("Son of "), Slot("mother"), Lit(".")>>>>,
          FEMALE |-> <<<<<<Slot("female_name"), Lit(" is the daughter of "), Slot("mother"), Lit(".")>>,
                          <<Slot("female_name"), Lit(" was the daughter of "), Slot("mother"), Lit(".")>>>>,
                        <<<<Lit("She is the daughter of "), Slot("mother"), Lit(".")>>,
                          <<Lit("She was the daughter of "), Slot("mother"), Lit(".")>>>>,
                        <<Lit("Daughter of "), Slot("mother"), Lit(".")>>>>]]

\* the constructor arguments no caller of the repository changes
use_call == FALSE

empty_place == ""

\* A Date of the host library: whether it has a modifier other than MOD_NONE,
\* whether its day is valid, its year (0 when it has none; the int is kept
\* as its decimal text) and the text the locale's get_date displays for it.
DateOf(modifier, day_valid, year, text) ==
    [modifier |-> modifier, day_valid |-> day_valid, year |-> year, text |-> text]

Dates ==
    { DateOf(FALSE, FALSE, "0", ""),
      DateOf(FALSE, FALSE, "1900", "1900"),
      DateOf(FALSE, TRUE, "1900", "1900-05-01"),
      DateOf(TRUE, FALSE, "1900", "um 1900"),
      DateOf(TRUE, TRUE, "1900", "um 1900-05-01"),
      DateOf(TRUE, FALSE, "0", "irgendwann") }

\* an event of the database: its date and the display text of its place
\* ('' when it has no place handle); NoEvent stands for a missing event
NoEvent == [present |-> FALSE, date |-> DateOf(FALSE, FALSE, "0", ""), place |-> ""]

Events ==
    {NoEvent} \cup
    { [present |-> TRUE, date |-> d, place |-> pl] : d \in Dates, pl \in {"", "Ulm"} }

\* A person the narrator can be given.  The event is the person's birth,
\* death and primary burial, baptism and christening alike, and the marriage
\* of the person's family; span is the text of the age at death the host
\* computes ('' when the span is empty or not valid).
Subject(fn, gender, alive, event, relationship, spouse, span) ==
    [first_name |-> fn, call_name |-> "", gender |-> gender, alive |-> alive,
     event |-> event, relationship |-> relationship, spouse |-> spouse,
     span |-> span]

NarratorPersons ==
    { Subject("Anna", "FEMALE", FALSE, ev, "MARRIED", "Hans M", "80 Jahre") : ev \in Events }
    \cup
    { Subject("", "MALE", TRUE, [present |-> TRUE, date |-> DateOf(FALSE, TRUE, "1900", "1900-05-01"), place |-> "Ulm"],
              "UNMARRIED", "", ""),
      Subject("Karl", "UNKNOWN", TRUE, [present |-> TRUE, date |-> DateOf(FALSE, FALSE, "1900", "1900"), place |-> ""],
              "CIVIL_UNION", "Eva M", ""),
      Subject("Karl", "MALE", FALSE, NoEvent, "UNKNOWN", "Eva M", "") }

TruthyAlways(v) == TRUE

\* Python's truth value of a text or of a year
Truthy(v) == v \notin {"", "0"}

get_date(date) == date.text

get_year(date) == date.year

\* the date text of an event: the displayed date or the year alone
EventDate(event) ==
    IF use_fulldate THEN get_date(event.date) ELSE get_year(event.date)

\* the place text of an event
EventPlace(event) ==
    IF event.place # "" THEN event.place ELSE empty_place

\* __get_age_at_death: <<age, age_index>>
get_age_at_death ==
    LET birth_year_valid == person.event.present /\ person.event.date.year # "0"
        death_year_valid == person.event.present /\ person.event.date.year # "0"
    IN  IF birth_year_valid /\ death_year_valid /\ person.span # ""
        THEN <<person.span, AGE_INDEX>>
        ELSE <<"0", AGE_INDEX_NO_AGE>>

MarriedText(is_first) ==
    LET spouse_name == IF person.spouse # "" THEN person.spouse ELSE "Unknown"
        event == person.event
        mdate == EventDate(event)
        date == IF event.present /\ Truthy(mdate) THEN mdate ELSE empty_date
        place == IF event.present THEN EventPlace(event) ELSE empty_place
        relationship == person.relationship
        value_map == [spouse |-> spouse_name, endnotes |-> "",
                      full_date |-> date, modified_date |-> date,
                      partial_date |-> date, place |-> place]
        date_full == IF ~event.present THEN 0
                     ELSE IF event.date.modifier THEN 2
                     ELSE IF event.date.day_valid THEN 1
                     ELSE 0
        ByRelationship(married, unmarried, other) ==
            IF relationship = "MARRIED" THEN married
            ELSE IF relationship = "UNMARRIED" THEN unmarried
            ELSE other
        text ==
            IF is_first
            THEN
                 IF Truthy(date) /\ Truthy(place) /\ verbose
                 THEN ByRelationship(MarriageTemplates.marriage_first_date_place, MarriageTemplates.unmarried_first_date_place, MarriageTemplates.relationship_first_date_place)[format_number + 1][date_full + 1]
                 ELSE IF Truthy(date) /\ Truthy(place)
                 THEN ByRelationship(MarriageTemplates.marriage_first_date_place, MarriageTemplates.unmarried_first_date_place, MarriageTemplates.relationship_first_date_place)[format_number + 1][date_full + 1]
                 ELSE IF Truthy(date) /\ verbose
                 THEN ByRelationship(MarriageTemplates.marriage_first_date, MarriageTemplates.unmarried_first_date, MarriageTemplates.relationship_first_date)[format_number + 1][date_full + 1]
                 ELSE IF Truthy(date)
                 THEN ByRelationship(MarriageTemplates.marriage_first_date, MarriageTemplates.unmarried_first_date, MarriageTemplates.relationship_first_date)[format_number + 1][date_full + 1]
                 ELSE IF Truthy(place) /\ verbose
                 THEN ByRelationship(MarriageTemplates.marriage_first_place, MarriageTemplates.unmarried_first_place, MarriageTemplates.relationship_first_place)[format_number + 1]
                 ELSE IF Truthy(place)
                 THEN ByRelationship(MarriageTemplates.marriage_first_place, MarriageTemplates.unmarried_first_place, MarriageTemplates.relationship_first_place)[format_number + 1]
                 ELSE IF verbose
                 THEN ByRelationship(MarriageTemplates.marriage_first_only, MarriageTemplates.unmarried_first_only, MarriageTemplates.relationship_first_only)[format_number + 1]
                 ELSE ByRelationship(MarriageTemplates.marriage_first_only, MarriageTemplates.unmarried_first_only, MarriageTemplates.relationship_first_only)[format_number + 1]
            ELSE
                 IF Truthy(date) /\ Truthy(place) /\ verbose
                 THEN ByRelationship(MarriageTemplates.marriage_also_date_place, MarriageTemplates.unmarried_also_date_place, MarriageTemplates.relationship_also_date_place)[format_number + 1][date_full + 1]
                 ELSE IF Truthy(date) /\ Truthy(place)
                 THEN ByRelationship(MarriageTemplates.marriage_also_date_place, MarriageTemplates.unmarried_also_date_place, MarriageTemplates.relationship_also_date_place)[format_number + 1][date_full + 1]
                 ELSE IF Truthy(date) /\ verbose
                 THEN ByRelationship(MarriageTemplates.marriage_also_date, MarriageTemplates.unmarried_also_date, MarriageTemplates.relationship_also_date)[format_number + 1][date_full + 1]
                 ELSE IF Truthy(date)
                 THEN ByRelationship(MarriageTemplates.marriage_also_date, MarriageTemplates.unmarried_also_date, MarriageTemplates.relationship_also_date)[format_number + 1][date_full + 1]
                 ELSE IF Truthy(place) /\ verbose
                 THEN ByRelationship(MarriageTemplates.marriage_also_place, MarriageTemplates.unmarried_also_place, MarriageTemplates.relationship_also_place)[format_number + 1]
                 ELSE IF Truthy(place)
                 THEN ByRelationship(MarriageTemplates.marriage_also_place, MarriageTemplates.unmarried_also_place, MarriageTemplates.relationship_also_place)[format_number + 1]
                 ELSE IF verbose
                 THEN ByRelationship(MarriageTemplates.marriage_also_only, MarriageTemplates.unmarried_also_only, MarriageTemplates.relationship_also_only)[format_number + 1]
                 ELSE ByRelationship(MarriageTemplates.marriage_also_only, MarriageTemplates.unmarried_also_only, MarriageTemplates.relationship_also_only)[format_number + 1]
    IN  IF Len(text) > 0 THEN Format(text, value_map) \o <<" ">> ELSE text

\* one call of the story: the method, its flag argument (include_age,
\* is_first), its name arguments and the sentence it returned
Sentence(method, flag, father_name, mother_name, text) ==
    [method |-> method, flag |-> flag, father_name |-> father_name,
     mother_name |-> mother_name, text |-> text]

NarratorFrame ==
    UNCHANGED <<db, treeVars, obsVars, bookVars, indexVars, bioVars, renameVars,
               format_number,
                verbose, use_fulldate, empty_date>>

set_subject ==
    /\ pc \in {"narrator", "story"}
    /\ \E p \in NarratorPersons :
          /\ person' = p
          /\ first_name' = IF use_call /\ p.call_name # "" THEN p.call_name
                           ELSE p.first_name
    /\ first_name_used' = (first_name' = "")
    /\ story' = <<>>
    /\ pc' = "story"
    /\ NarratorFrame

\* a call of a get_*_string method that leaves the narrator as it is
Tell(entry) ==
    /\ pc = "story"
    /\ Len(story) < MaxSentences
    /\ story' = Append(story, entry)
    /\ UNCHANGED <<pc, person, first_name>>
    /\ NarratorFrame

get_born_string ==
    LET birth_event == person.event
        bdate == IF birth_event.present THEN EventDate(birth_event) ELSE empty_date
        bplace == IF birth_event.present THEN EventPlace(birth_event) ELSE empty_place
        bdate_full == birth_event.present /\ birth_event.date.day_valid
        bdate_mod == birth_event.present /\ birth_event.date.modifier
        value_map == [name |-> first_name, male_name |-> first_name,
                      unknown_gender_name |-> first_name,
                      female_name |-> first_name, birth_date |-> bdate,
                      birth_place |-> bplace, month_year |-> bdate,
                      modified_date |-> bdate]
        text ==
            IF Truthy(bdate)
            THEN IF bdate_mod
                 THEN IF Truthy(bplace)
                      THEN BornTemplates.born_modified_date_with_place[format_number + 1]
                      ELSE BornTemplates.born_modified_date_no_place[format_number + 1]
                 ELSE IF bdate_full
                 THEN IF Truthy(bplace)
                      THEN BornTemplates.born_full_date_with_place[format_number + 1]
                      ELSE BornTemplates.born_full_date_no_place[format_number + 1]
                 ELSE IF Truthy(bplace)
                      THEN BornTemplates.born_partial_date_with_place[format_number + 1]
                      ELSE BornTemplates.born_partial_date_no_place[format_number + 1]
            ELSE IF Truthy(bplace)
                 THEN BornTemplates.born_no_date_with_place[format_number + 1]
                 ELSE <<>>
        returned == IF Len(text) > 0 THEN Format(text, value_map) ELSE text
    IN  /\ Tell(Sentence("get_born_string", FALSE, "", "", returned))
        /\ UNCHANGED first_name_used

get_died_string ==
    \E include_age \in BOOLEAN :
        LET death_event == person.event
            ddate == IF death_event.present THEN EventDate(death_event) ELSE empty_date
            dplace == IF death_event.present THEN EventPlace(death_event) ELSE empty_place
            ddate_full == death_event.present /\ death_event.date.day_valid
            ddate_mod == death_event.present /\ death_event.date.modifier
            age == IF include_age THEN get_age_at_death[1] ELSE "0"
            age_index == IF include_age THEN get_age_at_death[2] ELSE AGE_INDEX_NO_AGE
            value_map == [name |-> first_name, unknown_gender_name |-> first_name,
                          male_name |-> first_name, female_name |-> first_name,
                          death_date |-> ddate, modified_date |-> ddate,
                          death_place |-> dplace, age |-> age, month_year |-> ddate]
            text ==
                IF Truthy(ddate) /\ ddate_mod
                THEN IF Truthy(dplace)
                     THEN DiedTemplates.died_modified_date_with_place[format_number + 1][age_index + 1]
                     ELSE DiedTemplates.died_modified_date_no_place[format_number + 1][age_index + 1]
                ELSE IF Truthy(ddate) /\ ddate_full
                THEN IF Truthy(dplace)
                     THEN DiedTemplates.died_full_date_with_place[format_number + 1][age_index + 1]
                     ELSE DiedTemplates.died_full_date_no_place[format_number + 1][age_index + 1]
                ELSE IF Truthy(ddate)
                THEN IF Truthy(dplace)
                     THEN DiedTemplates.died_partial_date_with_place[format_number + 1][age_index + 1]
                     ELSE DiedTemplates.died_partial_date_no_place[format_number + 1][age_index + 1]
                ELSE IF Truthy(dplace)
                THEN DiedTemplates.died_no_date_with_place[format_number + 1][age_index + 1]
                ELSE DiedTemplates.died_no_date_no_place[format_number + 1][age_index + 1]
            returned == IF Len(text) > 0 THEN Format(text, value_map) ELSE text
        IN  /\ Tell(Sentence("get_died_string", include_age, "", "", returned))
            /\ UNCHANGED first_name_used

get_buried_string ==
    LET burial == person.event
        bdate == IF burial.present THEN EventDate(burial) ELSE empty_date
        bplace == IF burial.present THEN EventPlace(burial) ELSE empty_place
        bdate_full == burial.present /\ burial.date.day_valid
        bdate_mod == burial.present /\ burial.date.modifier
        value_map == [unknown_gender_name |-> first_name, male_name |-> first_name,
                      name |-> first_name, female_name |-> first_name,
                      burial_date |-> bdate, burial_place |-> bplace,
                      month_year |-> bdate, modified_date |-> bdate,
                      endnotes |-> ""]
        text ==
            IF Truthy(bdate) /\ bdate_mod
            THEN IF Truthy(bplace)
                 THEN BuriedTemplates.buried_modified_date_place[format_number + 1]
                 ELSE BuriedTemplates.buried_modified_date_no_place[format_number + 1]
            ELSE IF Truthy(bdate) /\ bdate_full
            THEN IF Truthy(bplace)
                 THEN BuriedTemplates.buried_full_date_place[format_number + 1]
                 ELSE BuriedTemplates.buried_full_date_no_place[format_number + 1]
            ELSE IF Truthy(bdate)
            THEN IF Truthy(bplace)
                 THEN BuriedTemplates.buried_partial_date_place[format_number + 1]
                 ELSE BuriedTemplates.buried_partial_date_no_place[format_number + 1]
            ELSE IF Truthy(bplace)
            THEN BuriedTemplates.buried_no_date_place[format_number + 1]
            ELSE BuriedTemplates.buried_no_date_no_place[format_number + 1]
        returned == IF ~burial.present THEN <<>>
            ELSE IF Len(text) > 0 THEN Format(text, value_map) ELSE text
    IN  /\ Tell(Sentence("get_buried_string", FALSE, "", "", returned))
        /\ UNCHANGED first_name_used

get_baptised_string ==
    LET baptism == person.event
        bdate == IF baptism.present THEN EventDate(baptism) ELSE empty_date
        bplace == IF baptism.present THEN EventPlace(baptism) ELSE empty_place
        bdate_full == baptism.present /\ baptism.date.day_valid
        bdate_mod == baptism.present /\ baptism.date.modifier
        value_map == [unknown_gender_name |-> first_name, male_name |-> first_name,
                      name |-> first_name, female_name |-> first_name,
                      baptism_date |-> bdate, baptism_place |-> bplace,
                      month_year |-> bdate, modified_date |-> bdate,
                      endnotes |-> ""]
        text ==
            IF Truthy(bdate) /\ bdate_mod
            THEN IF Truthy(bplace)
                 THEN BaptisedTemplates.baptised_modified_date_place[format_number + 1]
                 ELSE BaptisedTemplates.baptised_modified_date_no_place[format_number + 1]
            ELSE IF Truthy(bdate) /\ bdate_full
            THEN IF Truthy(bplace)
                 THEN BaptisedTemplates.baptised_full_date_place[format_number + 1]
                 ELSE BaptisedTemplates.baptised_full_date_no_place[format_number + 1]
            ELSE IF Truthy(bdate)
            THEN IF Truthy(bplace)
                 THEN BaptisedTemplates.baptised_partial_date_place[format_number + 1]
                 ELSE BaptisedTemplates.baptised_partial_date_no_place[format_number + 1]
            ELSE IF Truthy(bplace)
            THEN BaptisedTemplates.baptised_no_date_place[format_number + 1]
            ELSE BaptisedTemplates.baptised_no_date_no_place[format_number + 1]
        returned == IF ~baptism.present THEN <<>>
            ELSE IF Len(text) > 0 THEN Format(text, value_map) ELSE text
    IN  /\ Tell(Sentence("get_baptised_string", FALSE, "", "", returned))
        /\ UNCHANGED first_name_used

get_christened_string ==
    LET christening == person.event
        cdate == IF christening.present THEN EventDate(christening) ELSE empty_date
        cplace == IF christening.present THEN EventPlace(christening) ELSE empty_place
        cdate_full == christening.present /\ christening.date.day_valid
        cdate_mod == christening.present /\ christening.date.modifier
        value_map == [unknown_gender_name |-> first_name, male_name |-> first_name,
                      name |-> first_name, female_name |-> first_name,
                      christening_date |-> cdate, christening_place |-> cplace,
                      month_year |-> cdate, modified_date |-> cdate,
                      endnotes |-> ""]
        text ==
            IF Truthy(cdate) /\ cdate_mod
            THEN IF Truthy(cplace)
                 THEN ChristenedTemplates.christened_modified_date_place[format_number + 1]
                 ELSE ChristenedTemplates.christened_modified_date_no_place[format_number + 1]
            ELSE IF Truthy(cdate) /\ cdate_full
            THEN IF Truthy(cplace)
                 THEN ChristenedTemplates.christened_full_date_place[format_number + 1]
                 ELSE ChristenedTemplates.christened_full_date_no_place[format_number + 1]
            ELSE IF Truthy(cdate)
            THEN IF Truthy(cplace)
                 THEN ChristenedTemplates.christened_partial_date_place[format_number + 1]
                 ELSE ChristenedTemplates.christened_partial_date_no_place[format_number + 1]
            ELSE IF Truthy(cplace)
            THEN ChristenedTemplates.christened_no_date_place[format_number + 1]
            ELSE ChristenedTemplates.christened_no_date_no_place[format_number + 1]
        returned == IF ~christening.present THEN <<>>
            ELSE IF Len(text) > 0 THEN Format(text, value_map) ELSE text
    IN  /\ Tell(Sentence("get_christened_string", FALSE, "", "", returned))
        /\ first_name_used' = TRUE

get_married_string ==
    \E is_first \in BOOLEAN :
        /\ Tell(Sentence("get_married_string", is_first, "", "", MarriedText(is_first)))
        /\ UNCHANGED first_name_used

get_child_string ==
    \E father_name \in {"", "Hans M"}, mother_name \in {"", "Eva M"} :
        LET value_map == [father |-> father_name, mother |-> mother_name,
                          male_name |-> first_name, name |-> first_name,
                          female_name |-> first_name,
                          unknown_gender_name |-> first_name]
            dead == IF person.alive THEN 0 ELSE 1
            index == IF ~first_name_used THEN NAME_INDEX_INCLUDE_NAME
                     ELSE NAME_INDEX_EXCLUDE_NAME
            gender == person.gender
            text ==
                IF Truthy(mother_name) /\ Truthy(father_name) /\ verbose
                THEN ChildTemplates.child_father_mother[gender][index + 1][dead + 1]
                ELSE IF Truthy(mother_name) /\ Truthy(father_name)
                THEN ChildTemplates.child_father_mother[gender][3]
                ELSE IF Truthy(mother_name) /\ verbose
                THEN ChildTemplates.child_mother[gender][index + 1][dead + 1]
                ELSE IF Truthy(mother_name)
                THEN ChildTemplates.child_mother[gender][3]
                ELSE IF Truthy(father_name) /\ verbose
                THEN ChildTemplates.child_father[gender][index + 1][dead + 1]
                ELSE IF Truthy(father_name)
                THEN ChildTemplates.child_father[gender][3]
                ELSE <<>>
            returned == IF Len(text) > 0 THEN Format(text, value_map) \o <<" ">> ELSE text
        IN  /\ Tell(Sentence("get_child_string", FALSE, father_name, mother_name, returned))
            /\ first_name_used' = TRUE
\* the narrators of the repository: the one its three reports construct, in
\* each format, and the one the constructor's defaults give
NarratorConfigs ==
    { [verbose |-> FALSE, use_fulldate |-> TRUE, empty_date |-> "n/a", format |-> f] :
        f \in {FORMAT_NORMALTEXT, FORMAT_MARKDOWN, FORMAT_LATEX} }
    \cup
    { [verbose |-> TRUE, use_fulldate |-> FALSE, empty_date |-> "", format |-> f] :
        f \in {FORMAT_NORMALTEXT, FORMAT_MARKDOWN, FORMAT_LATEX} }

\* ---------------------------------------------------------------------
\* createnewbook.py: the entries of the main document
\*
\* A dictionary is a function from keys (texts) to values; a value is a text
\* or, for true/yes/y and false/no/n, a boolean.
\* ---------------------------------------------------------------------
StrValue(s) == [kind |-> "str", text |-> s, truth |-> FALSE]

BoolValue(b) == [kind |-> "bool", text |-> <<>>, truth |-> b]

delimiters == <<<<",", " ">>, <<";", " ">>, <<"/", " ">>, <<"/">>, <<",">>, <<";">>, <<" ">>>>

\* dictionary[key] = value
SetItem(dictionary, key, value) ==
    [k \in DOMAIN dictionary \cup {key} |->
        IF k = key THEN value ELSE dictionary[k]]

\* line.replace(delimiter, ",") for every delimiter in turn
RECURSIVE ReplaceDelimiters(_, _)
ReplaceDelimiters(line, ds) ==
    IF ds = <<>> THEN line
    ELSE ReplaceDelimiters(Replace(line, Head(ds), <<",">>), Tail(ds))

\* the pairs of a line enclosed in the markers
Pairs(line) ==
    LET marker_start == <<"%", "{">>
        marker_end == <<"}">>
        replaced == ReplaceDelimiters(Strip(line), delimiters)
    IN  IF StartsWith(replaced, marker_start) /\ EndsWith(replaced, marker_end)
        THEN Split(SubSeq(replaced, 3, Len(replaced) - 1), <<",">>)
        ELSE <<>>

\* the loop over the pairs, the tag values converted to booleans; a pair
\* without "=" raises IndexError
RECURSIVE AddPairs(_, _)
AddPairs(pairs, dictionary) ==
    IF pairs = <<>> THEN [raised |-> FALSE, dictionary |-> dictionary]
    ELSE LET key_value == Split(Strip(Head(pairs)), <<"=">>)
             TagValue(value) ==
                 IF value \in {<<"t", "r", "u", "e">>, <<"y", "e", "s">>, <<"y">>}
                 THEN BoolValue(TRUE)
                 ELSE IF value \in {<<"f", "a", "l", "s", "e">>, <<"n", "o">>, <<"n">>}
                 THEN BoolValue(FALSE)
                 ELSE StrValue(value)
         IN  IF Len(key_value) < 2
             THEN [raised |-> TRUE, dictionary |-> dictionary]
             ELSE AddPairs(Tail(pairs),
                           SetItem(dictionary, Lower(Strip(key_value[1])),
                                   TagValue(Lower(Strip(key_value[2])))))

get_key_value_pair(line) == AddPairs(Pairs(line), <<>>)

\* the loop over the lines of the file
RECURSIVE ExtractLines(_, _)
ExtractLines(lines, result) ==
    IF lines = <<>> THEN [raised |-> FALSE, result |-> result]
    ELSE LET got == get_key_value_pair(Head(lines))
         IN  IF got.raised THEN [raised |-> TRUE, result |-> result]
             ELSE IF <<"g", "r", "i", "d">> \in DOMAIN got.dictionary
             THEN ExtractLines(Tail(lines),
                               SetItem(result, got.dictionary[<<"g", "r", "i", "d">>], got.dictionary))
             ELSE ExtractLines(Tail(lines), result)

BookFrame == UNCHANGED <<treeVars, obsVars, narVars, indexVars, bioVars, renameVars>>

\* maindoc = extract_key_value_pairs(tex_file)
extract_key_value_pairs ==
    /\ pc = "extract_key_value_pairs"
    /\ LET extracted == ExtractLines(tex_file, <<>>)
       IN  IF extracted.raised
           THEN pc' = "extract_IndexError" /\ UNCHANGED maindoc
           ELSE pc' = "extracted" /\ maindoc' = extracted.result
    /\ UNCHANGED <<db, tex_file, report_file>>
    /\ BookFrame

\* the lines a main document is made of
TexLines ==
    { <<"%", "{", "G", "r", "I", "D", "=", "I", "1", ",", " ", "d", "i", "r", "e", "c", "t",
      "i", "o", "n", "=", "d", "o", "w", "n", "}", "\n">>,
      <<"%", "{", "g", "r", "i", "d", "=", "i", "1", ";", " ", "d", "i", "r", "e", "c", "t",
      "i", "o", "n", "=", "u", "p", "/", " ", "l", "i", "s", "t", "c", "=", "Y", "e", "s", "}",
      "\n">>,
      <<" ", " ", "%", "{", "G", "r", "I", "D", "=", "I", "2", "/", "i", "n", "c", "m", "a",
      "t", "e", "s", "=", "n", "}">>,
      <<"\\", "s", "e", "c", "t", "i", "o", "n", "{", "A", "}", "\n">>,
      <<"%", "{", "d", "i", "r", "e", "c", "t", "i", "o", "n", "=", "d", "o", "w", "n", "}",
      "\n">>,
      <<"%", "{", "G", "r", "I", "D", "=", "I", "3", ",", " ", "}", "\n">>,
      <<"%", "{", "}", "\n">>,
      <<"%", " ", "G", "r", "I", "D", "=", "I", "4", "\n">> }

\* the main documents: up to MaxLines of these lines
TexFiles ==
    UNION { [1..n -> TexLines] : n \in 0..MaxLines }

\* ---------------------------------------------------------------------
\* latex_helper.py: the nobiliary particle of a surname
\* ---------------------------------------------------------------------
nobiliary_particles ==
    <<<<"v", "o", "n", " ">>,
      <<"v", "a", "n", " ">>,
      <<"v", "o", "m", " ">>,
      <<"z", "u", " ">>,
      <<"d", "e", " ">>,
      <<"d", "'">>,
      <<"d", "e", "l", " ">>,
      <<"d", "i", " ">>,
      <<"d", "a", " ">>,
      <<"d", "o", "s", " ">>,
      <<"d", "e", "s", " ">>,
      <<"d", "u", " ">>,
      <<"l", "a", " ">>,
      <<"l", "e", " ">>,
      <<"l", "o", " ">>,
      <<"d", "e", "l", "l", "a", " ">>,
      <<"d", "e", "l", "l", "e", " ">>,
      <<"d", "e", "g", "l", "i", " ">>,
      <<"d", "e", "i", " ">>,
      <<"e", "l", " ">>,
      <<"a", "l", " ">>,
      <<"d", "e", " ", "l", "a", " ">>,
      <<"d", "e", " ", "l", "a", "s", " ">>,
      <<"d", "e", " ", "l", "o", "s", " ">>>>

\* the second element of the returned tuple: None or a particle
NoParticle == [none |-> TRUE, text |-> <<>>]

Particle(particle) == [none |-> FALSE, text |-> particle]

\* the loop over the particles: the first one found in the lower-cased
\* surname decides; an IndexError (the surname itself does not hold it as
\* written) is swallowed and the surname is returned as it is
RECURSIVE FormatFrom(_, _)
FormatFrom(name, k) ==
    IF k > Len(nobiliary_particles) THEN <<name, NoParticle>>
    ELSE LET particle == nobiliary_particles[k]
         IN  IF Contains(Lower(name), particle)
             THEN LET parts == SplitOnce(name, particle)
                  IN  IF Len(parts) < 2 THEN <<name, NoParticle>>
                      ELSE <<Strip(parts[2]), Particle(particle)>>
             ELSE FormatFrom(name, k + 1)

\* stripped_surname, nobility_particle = format_nobiliary_particle(surname)
format_nobiliary_particle ==
    /\ pc = "format_nobiliary_particle"
    /\ stripped_surname' = FormatFrom(surname, 1)[1]
    /\ nobility_particle' = FormatFrom(surname, 1)[2]
    /\ pc' = "formatted"
    /\ UNCHANGED <<db, surname, treeVars, obsVars, narVars, bookVars, bioVars,
                 renameVars>>

FamilyNames == {<<"C", "r", "u", "z">>, <<"B", "e", "r", "g">>}

\* the surnames of the persons to index: every listed particle before a family
\* name, and surnames without a particle
Surnames ==
    { nobiliary_particles[k] \o name :
        k \in DOMAIN nobiliary_particles, name \in FamilyNames }
    \cup FamilyNames
    \cup {<<"V", "o", "n", " ", "B", "e", "r", "g">>, <<"M", "e", "i", "e", "r">>}

\* ---------------------------------------------------------------------
\* createnewbook.py: the filter rule and the book item of an entry
\* ---------------------------------------------------------------------
\* dictionary.get(key, default)
Get(dictionary, key, default) ==
    IF key \in DOMAIN dictionary THEN dictionary[key] ELSE default

\* int(s) for a text of decimal digits
RECURSIVE IntOf(_)
IntOf(s) ==
    IF s = <<>> THEN 0
    ELSE 10 * IntOf(SubSeq(s, 1, Len(s) - 1))
         + (CHOOSE k \in 1..10 : Digits[k] = s[Len(s)]) - 1

\* db.get_person_from_gramps_id(id)
get_person_from_gramps_id(id) ==
    IF \E p \in People(db) : get_gramps_id(p) = id
    THEN CHOOSE p \in People(db) : get_gramps_id(p) = id
    ELSE None

\* the arguments of the rule of an entry: [ID, Number of generations,
\* Inclusive, Exclude]
RuleArguments(id, params) ==
    <<Upper(id.text),
      Str(IntOf(Get(params, <<"g", "e", "n", "e", "r", "a", "t", "i", "o", "n", "s">>, StrValue(<<"3">>)).text) - 1),
      <<"1">>,
      <<>>>>

\* the rule IsDescendantFamilyOfInLessThanNthGeneration of a 'down' entry,
\* with the arguments as the rule's prepare reads them
generate_filters ==
    /\ pc = "extracted"
    /\ \E id \in DOMAIN maindoc :
          LET arg == RuleArguments(id, maindoc[id])
          IN  /\ Get(maindoc[id], <<"d", "i", "r", "e", "c", "t", "i", "o", "n">>, StrValue(<<"d", "o", "w", "n">>)) = StrValue(<<"d", "o", "w", "n">>)
              /\ root_person' = get_person_from_gramps_id(arg[1])
              /\ max_gen' = IntOf(arg[2])
              /\ inclusive' = (IntOf(arg[3]) # 0)
              /\ exclude_list' = IF arg[4] # <<>> THEN Split(arg[4], <<",">>) ELSE <<>>
    /\ pc' = "prepare"
    /\ UNCHANGED <<db, stack, matches, reportVars, downOpts, downVars, upOpts, upVars>>
    /\ UNCHANGED toolVars

\* the book item of the entry and the construction of its report:
\* "LaTeX-Report-down" for the direction 'down', after the entry's rule is
\* prepared, "LaTeX-Report-up" for any other direction (the rule of such an
\* entry is the host's IsLessThanNthGenerationAncestorOf)
write_book_item ==
    /\ DOMAIN maindoc # {}
    /\ \E id \in DOMAIN maindoc :
          LET person_options == maindoc[id]
              pid == Upper(id.text)
              direction == Get(person_options, <<"d", "i", "r", "e", "c", "t", "i", "o", "n">>,
                               StrValue(<<"d", "o", "w", "n">>))
              generations ==
                  IntOf(Get(person_options,
                            <<"g", "e", "n", "e", "r", "a", "t", "i", "o", "n", "s">>,
                            StrValue(<<"3">>)).text)
          IN  IF direction = StrValue(<<"d", "o", "w", "n">>)
              THEN /\ pc = "prepared"
                   /\ get_person_from_gramps_id(pid) = root_person
                   /\ IF get_person_from_gramps_id(pid) = None
                      THEN /\ pc' = "ReportError"
                           /\ UNCHANGED <<reportVars, downOpts, downVars>>
                      ELSE /\ pc' = "down_report"
                           /\ center_person' = get_person_from_gramps_id(pid)
                           /\ max_generations' = generations
                           /\ numbering' = "Henry"
                           /\ structure' = "by generation"
                           /\ inc_mates' = TRUE
                           /\ map' = <<>>
                           /\ cursor' = 0
                           /\ outfile' = <<>>
                           /\ gen_keys' = <<>>
                           /\ dnumber' = <<>>
                           /\ numbers_printed' = <<>>
                           /\ latex_output_aq' = <<[kind |-> "str"]>>
                   /\ UNCHANGED <<upOpts, upVars>>
              ELSE /\ pc = "extracted"
                   /\ IF get_person_from_gramps_id(pid) = None
                      THEN /\ pc' = "ReportError"
                           /\ UNCHANGED <<reportVars, upOpts, upVars>>
                      ELSE /\ pc' = "up_report"
                           /\ center_person' = get_person_from_gramps_id(pid)
                           /\ max_generations' = generations
                           /\ initial_sosa' = 1
                           /\ dupperson' = TRUE
                           /\ listchildren' = TRUE
                           /\ map' = <<>>
                           /\ cursor' = 0
                           /\ outfile' = <<>>
                           /\ generation' = 0
                           /\ latex' = <<[kind |-> "str"]>>
                           /\ doc' = <<>>
                   /\ UNCHANGED <<downOpts, downVars>>
    /\ UNCHANGED <<db, stack, filterVars>>
    /\ UNCHANGED toolVars

\* the lines a text consists of, each with its newline
RECURSIVE SplitLines(_)
SplitLines(text) ==
    IF text = <<>> THEN <<>>
    ELSE IF Find(text, <<"\n">>, 1) = 0 THEN <<text>>
    ELSE <<SubSeq(text, 1, Find(text, <<"\n">>, 1))>>
         \o SplitLines(SubSeq(text, Find(text, <<"\n">>, 1) + 1, Len(text)))

SUBFILE == <<"\\", "s", "u", "b", "f", "i", "l", "e", "{">>

\* the loop of write_subfile_info over the lines of the main document: what
\* it writes to the temporary file.  get_key_value_pair may raise IndexError;
\* an entry of a person the database does not have raises AttributeError.
RECURSIVE SubfileLines(_, _)
SubfileLines(lines, previous_line) ==
    IF lines = <<>> THEN [raised |-> FALSE, written |-> <<>>]
    ELSE LET line == Head(lines)
             line_ == Strip(line)
             got == get_key_value_pair(previous_line)
             d == got.dictionary
             GRID == <<"g", "r", "i", "d">>
             found == get_person_from_gramps_id(Upper(d[GRID].text))
             direction == Get(d, <<"d", "i", "r", "e", "c", "t", "i", "o", "n">>,
                              StrValue(<<"d", "o", "w", "n">>))
             name == basename(get_filename(found,  <<"l", "a", "t", "e", "x", "-">> \o direction.text,
                                           <<>>, <<>>, <<>>, <<>>))
             rest == SubfileLines(Tail(lines), line_)
             Write(texts) ==
                 [raised |-> rest.raised, written |-> texts \o rest.written]
         IN  IF got.raised THEN [raised |-> TRUE, written |-> <<>>]
             ELSE IF GRID \in DOMAIN d /\ d[GRID] # StrValue(<<>>)
             THEN IF d[GRID].kind # "str" \/ direction.kind # "str" \/ found = None
                  THEN [raised |-> TRUE, written |-> <<>>]
                  ELSE IF StartsWith(line_, SUBFILE)
                  THEN Write(<<SUBFILE \o name \o <<"}", "\n">>>>)
                  ELSE Write(<<SUBFILE \o name \o <<"}", "\n">>>>
                             \o SplitLines(line \o <<"\n">>))
             ELSE Write(<<line_ \o <<"\n">>>>)

\* write_subfile_info(dbstate.db, tex_file), after the reports of the book are
\* written; shutil.copyfile replaces the main document
write_subfile_info ==
    /\ pc = "done"
    /\ DOMAIN maindoc # {}
    /\ LET temp_file == SubfileLines(tex_file, <<>>)
       IN  IF temp_file.raised
           THEN pc' = "subfile_Error" /\ UNCHANGED tex_file
           ELSE pc' = "subfiles" /\ tex_file' = temp_file.written
    /\ UNCHANGED <<db, maindoc, report_file>>
    /\ BookFrame

\* the main documents of a book: one entry for person I1, with or without a
\* line after it
BookFiles ==
    { <<<<"%", "{", "G", "r", "I", "D", "=", "I", "1", "}", "\n">>>>,
      <<<<"%", "{", "G", "r", "I", "D", "=", "i", "1", ",", " ", "g", "e",
        "n", "e", "r", "a", "t", "i", "o", "n", "s", "=", "1", "}", "\n">>,
        <<"\\", "s", "u", "b", "f", "i", "l", "e", "{", "o", "l", "d", "}",
        "\n">>>>,
      <<<<"%", "{", "G", "r", "I", "D", "=", "I", "1", ";", " ", "g", "e",
        "n", "e", "r", "a", "t", "i", "o", "n", "s", "=", "2", ",", " ", "d",
        "i", "r", "e", "c", "t", "i", "o", "n", "=", "d", "o", "w", "n", "}",
        "\n">>,
        <<"\\", "s", "e", "c", "t", "i", "o", "n", "{", "A", "}", "\n">>>>,
      <<<<"%", "{", "G", "r", "I", "D", "=", "I", "1", ",", " ", "d", "i",
        "r", "e", "c", "t", "i", "o", "n", "=", "u", "p", "}", "\n">>,
        <<"\\", "s", "u", "b", "f", "i", "l", "e", "{", "o", "l", "d", "}",
        "\n">>>>,
      <<<<" ", " ", "%", "{", "g", "r", "i", "d", "=", "i", "1", "/", " ",
        "d", "i", "r", "e", "c", "t", "i", "o", "n", "=", "u", "p", ",", " ",
        "g", "e", "n", "e", "r", "a", "t", "i", "o", "n", "s", "=", "2", "}",
        "\n">>,
        <<"\n">>,
        <<"t", "e", "x", "t">>>> }

(***************************************************************************)
(* latex_down.py, latex_up.py, latex_helper.py: the biography of a person  *)
(* and the filter selected for the report                                  *)
(***************************************************************************)
\* self.filter is None
NoFilter == [selected |-> FALSE, name |-> <<>>, result |-> {}]

\* a filter object: its name, and the handles filter.apply returns
Filter(name, result) == [selected |-> TRUE, name |-> name, result |-> result]

\* the attribute filtered_subset before write_report assigned it
Unset == [assigned |-> FALSE, handles |-> {}]

BiographyDatabase == << Fam(1, 2, <<3>>) >>

\* the filters a report may be run with: none, or a filter that matches
\* any set of persons of the database
Filters ==
    {NoFilter} \cup { Filter(<<"F">>, S) : S \in SUBSET People(BiographyDatabase) }

\* the truth value of a filter object (None or an object)
filter_truth(f) == f.selected

\* the truth value of the list filter.apply returned
subset_truth(subset) == subset.handles # {}

\* the truth value of person["filtered"]: False or the name of the filter
filtered_truth(value) ==
    IF value.kind = "bool" THEN value.truth ELSE value.text # <<>>

\* get_empty_indiviudal(), the entries the biography of a person without
\* title, alias, suffix, notes, marriages and trees is made of
get_empty_indiviudal ==
    [kekule |-> <<>>, GrID |-> <<>>, ID |-> <<>>, nachname |-> <<>>,
     vornamen |-> <<>>, geboren |-> <<>>, filtered |-> BoolValue(FALSE)]

\* get_latex_id(person): surname, first name and Gramps ID without spaces
get_latex_id(p) ==
    RemoveChars(get_nachname(p) \o get_first_name(p) \o get_gramps_id(p), {" "})

\* the birth sentence of a person: the persons with a vital event have one
geboren(p) == IF has_vital_event(p) THEN <<"*">> \o Str(p) ELSE <<>>

\* write_report, latex_down.py lines 392-393 and latex_up.py lines 242-243
write_report_filter ==
    /\ pc = "write_report"
    /\ filtered_subset' = IF filter_truth(filter)
                          THEN [assigned |-> TRUE, handles |-> filter.result]
                          ELSE filtered_subset
    /\ pc' = "write_person"
    /\ UNCHANGED <<db, treeVars, obsVars, narVars, bookVars, indexVars, renameVars>>
    /\ UNCHANGED <<filter, person_data, biography>>

\* write_person and write_person_info for the person with the number val;
\* person_data["filtered"] is set in latex_down.py lines 1056-1058 and
\* latex_up.py lines 415-417
write_person_info ==
    /\ pc = "write_person"
    /\ \E p \in People(db), val \in { <<"1">>, <<"1", "a">> } :
          LET filtered == IF /\ filter_truth(filter)
                             /\ subset_truth(filtered_subset)
                             /\ p \notin filtered_subset.handles
                          THEN StrValue(filter.name)
                          ELSE BoolValue(FALSE)
          IN
          person_data' = [kekule |-> val,
                          GrID |-> get_gramps_id(p),
                          ID |-> get_latex_id(p),
                          nachname |-> get_nachname(p),
                          vornamen |-> get_first_name(p),
                          geboren |-> geboren(p),
                          filtered |-> filtered]
    /\ pc' = "append_bio_facts"
    /\ UNCHANGED <<db, treeVars, obsVars, narVars, bookVars, indexVars, renameVars>>
    /\ UNCHANGED <<filter, filtered_subset, biography>>

\* a piece of the biography: a LaTeX command with its arguments
Tag(command, argument, second) ==
    [command |-> command, argument |-> argument, second |-> second]

\* get_latex_biography(person, order_system, gramps_id): the commands of
\* the biography in their order; the punctuation between them and its
\* clean-up (lines 283-298) are left out
get_latex_biography(data, order_system, gramps_id) ==
    LET opening == IF ~filtered_truth(data.filtered)
                   THEN <<Tag("label", data.ID, <<>>)>>
                   ELSE <<Tag("filteredperson{", <<>>, <<>>)>>
        number == <<Tag(order_system, data.kekule, <<>>), Tag("resetplace", <<>>, <<>>)>>
        grid == IF gramps_id THEN <<Tag("GrID", data.GrID, <<>>)>> ELSE <<>>
        names == (IF data.nachname # <<>>
                  THEN <<Tag("nachname", data.nachname, <<>>)>> ELSE <<>>)
                 \o <<Tag("vornamen", data.vornamen, <<>>)>>
        life == IF data.geboren # <<>>
                THEN <<Tag("geboren", data.geboren, <<>>)>> ELSE <<>>
    IN  opening \o number \o grid \o names \o
        (IF filtered_truth(data.filtered)
         THEN <<Tag("filteredpersonref", data.ID, data.filtered.text),
                Tag("}", <<>>, <<>>)>>
         ELSE <<Tag("index", data.nachname, <<>>)>> \o life \o
              <<Tag("resetplace", <<>>, <<>>), Tag("index", data.nachname, <<>>)>>)

\* append_bio_facts of the descendant report ("henry") and of the ancestor
\* report ("kekule"), with and without Gramps IDs
append_bio_facts ==
    /\ pc = "append_bio_facts"
    /\ \E order_system \in {"henry", "kekule"}, want_ids \in BOOLEAN :
          biography' = get_latex_biography(person_data, order_system, want_ids)
    /\ pc' = "biography"
    /\ UNCHANGED <<db, treeVars, obsVars, narVars, bookVars, indexVars, renameVars>>
    /\ UNCHANGED <<filter, filtered_subset, person_data>>

(***************************************************************************)
(* rename_images.py: the script that renames the image files of the media  *)
(***************************************************************************)
\* the paths the database holds for the media objects 1, 2, 3 before the
\* script runs
StoredPaths ==
    << <<"/", "m", "/", "a", ".", "j">>,
       <<"/", "m", "/", "b", ".", "j">>,
       <<"/", "m", "/", "c", ".", "t">> >>

\* person.get_media_list() of the persons 1 and 2
MediaLists ==
    { << <<1>>, <<>> >>, << <<1, 2>>, <<3>> >>, << <<3, 2>>, <<1>> >>,
      << <<>>, <<2, 1>> >> }

\* media.get_mime_type(): the files ending in ".j" are images
get_mime_type(m) ==
    IF StoredPaths[m][Len(StoredPaths[m])] = "j" THEN "image/jpeg" ELSE "text/plain"

\* is_image_type(mime)
is_image_type(mime) == mime = "image/jpeg"

\* os.path.splitext(path): the position of the dot of the extension, 0 when
\* the last component has none
ExtensionDot(path) ==
    LET at == { i \in (LastSlash(path) + 2)..Len(path) : path[i] = "." }
    IN  IF at = {} THEN 0 ELSE CHOOSE i \in at : \A j \in at : j <= i

\* alphabet = string.ascii_lowercase
ascii_lowercase ==
    <<"a", "b", "c", "d", "e", "f", "g", "h", "i", "j", "k", "l", "m",
      "n", "o", "p", "q", "r", "s", "t", "u", "v", "w", "x", "y", "z">>

\* the media references in the order of the two loops:
\* [person, index, media_count, media_handle]
RECURSIVE MediaRefsFrom(_)
MediaRefsFrom(p) ==
    IF p > Len(media_list) THEN <<>>
    ELSE [index \in 1..Len(media_list[p]) |->
            [person |-> p, index |-> index - 1,
             media_count |-> Len(media_list[p]),
             media_handle |-> media_list[p][index]]]
         \o MediaRefsFrom(p + 1)

\* the new name of the file of a media reference, lines 126-138
filename_new(ref) ==
    LET path == media_path[ref.media_handle]
        dot == ExtensionDot(path)
        base_name == IF dot = 0 THEN path ELSE SubSeq(path, 1, dot - 1)
        file_extension == IF dot = 0 THEN <<>> ELSE SubSeq(path, dot + 1, Len(path))
        directory == dirname(base_name \o file_extension)
        suffix == IF ref.media_count > 1 THEN <<ascii_lowercase[ref.index + 1]>>
                  ELSE <<>>
    IN  get_filename(ref.person, <<"i", "m", "g">>, suffix, file_extension,
                     directory, <<>>)

\* one turn of the loop over the media of the persons, lines 119-146;
\* os.rename(src, dst) raises OSError when there is no file src
rename_images ==
    /\ pc = "rename_images"
    /\ media_cursor <= Len(MediaRefsFrom(1))
    /\ LET ref == MediaRefsFrom(1)[media_cursor]
           path == media_path[ref.media_handle]
           rename_fails == path \notin files
       IN  IF is_image_type(get_mime_type(ref.media_handle))
           THEN /\ files' = IF rename_fails THEN files
                            ELSE (files \ {path}) \cup {filename_new(ref)}
                /\ media_path' = [media_path EXCEPT ![ref.media_handle] = filename_new(ref)]
           ELSE UNCHANGED <<files, media_path>>
    /\ media_cursor' = media_cursor + 1
    /\ UNCHANGED <<db, pc, treeVars, obsVars, narVars, bookVars, indexVars, bioVars,
                   media_list>>

\* the end of the loops, lines 150-157
rename_images_end ==
    /\ pc = "rename_images"
    /\ media_cursor > Len(MediaRefsFrom(1))
    /\ pc' = "images_renamed"
    /\ UNCHANGED <<db, treeVars, obsVars, narVars, bookVars, indexVars, bioVars,
                   renameVars>>

\* values of the variables a handler does not use
IdleFilter ==
    /\ root_person = None
    /\ max_gen = 0
    /\ inclusive = TRUE
    /\ exclude_list = <<>>
    /\ matches = {}

IdleReport ==
    /\ center_person = None
    /\ max_generations = 0
    /\ map = <<>>
    /\ cursor = 0
    /\ outfile = <<>>

IdleDown ==
    /\ numbering = ""
    /\ structure = ""
    /\ inc_mates = FALSE
    /\ gen_keys = <<>>
    /\ dnumber = <<>>
    /\ numbers_printed = <<>>
    /\ latex_output_aq = <<>>

IdleUp ==
    /\ initial_sosa = 1
    /\ dupperson = FALSE
    /\ listchildren = FALSE
    /\ generation = 0
    /\ latex = <<>>
    /\ doc = <<>>

IdleObsidian ==
    /\ report_destination = <<>>
    /\ frontmatter_tags = <<>>
    /\ person_cursor = 0
    /\ filename = <<>>

IdleNarrator ==
    /\ person = None
    /\ first_name = ""
    /\ first_name_used = FALSE
    /\ format_number = 0
    /\ verbose = TRUE
    /\ use_fulldate = FALSE
    /\ empty_date = ""
    /\ story = <<>>

IdleBook ==
    /\ tex_file = <<>>
    /\ maindoc = <<>>
    /\ report_file = <<>>

IdleIndex ==
    /\ surname = <<>>
    /\ stripped_surname = <<>>
    /\ nobility_particle = NoParticle

IdleBiography ==
    /\ filter = NoFilter
    /\ filtered_subset = Unset
    /\ person_data = get_empty_indiviudal
    /\ biography = <<>>

IdleRename ==
    /\ files = {}
    /\ media_path = <<>>
    /\ media_list = <<>>
    /\ media_cursor = 0

IdleTools ==
    IdleObsidian /\ IdleNarrator /\ IdleBook /\ IdleIndex /\ IdleBiography /\ IdleRename

InitFilter ==
    /\ IdleTools
    /\ db \in Databases
    /\ pc = "prepare"
    /\ IdleReport
    /\ IdleDown
    /\ IdleUp
    /\ stack = <<>>
    /\ root_person \in {None, 1}
    /\ max_gen \in 0..MaxN
    /\ inclusive \in BOOLEAN
    /\ exclude_list \in ExcludeChoices
    /\ matches = {}

Numberings ==
    {"Henry", "Modified Henry", "d'Aboville", "Record (Modified Register)"}

InitDown ==
    /\ IdleTools
    /\ db \in Databases \cup {LargeFamily}
    /\ pc = "down_report"
    /\ stack = <<>>
    /\ IdleFilter
    /\ center_person = 1
    /\ max_generations \in 1..MaxGenerations
    /\ map = <<>>
    /\ cursor = 0
    /\ outfile = <<>>
    /\ numbering \in Numberings
    /\ structure \in {"by generation", "by lineage"}
    /\ inc_mates \in BOOLEAN
    /\ gen_keys = <<>>
    /\ dnumber = <<>>
    /\ numbers_printed = <<>>
    /\ latex_output_aq = <<[kind |-> "str"]>>
    /\ IdleUp

SosaChoices == {1, 2, 5}

InitUp ==
    /\ IdleTools
    /\ \/ /\ db \in Databases
          /\ center_person \in {1, 4}
          /\ max_generations \in 1..MaxGenerations
       \/ /\ db = MaternalLine
          /\ center_person = 1
          /\ max_generations \in {2, DeepGenerations}
       \/ /\ db \in Remarriages
          /\ center_person = 1
          /\ max_generations = 1
    /\ pc = "up_report"
    /\ stack = <<>>
    /\ IdleFilter
    /\ map = <<>>
    /\ cursor = 0
    /\ outfile = <<>>
    /\ IdleDown
    /\ initial_sosa \in SosaChoices
    /\ dupperson \in BOOLEAN
    /\ listchildren \in BOOLEAN
    /\ generation = 0
    /\ latex = <<[kind |-> "str"]>>
    /\ doc = <<>>

IdleTree == stack = <<>> /\ IdleFilter /\ IdleReport /\ IdleDown /\ IdleUp

\* the destination directories the exporter may find: for every person no
\* file, the designated file, a file with an older name, or both
Directories ==
    LET names == { determine_filename(p, TRUE) : p \in Persons } \cup
                 { OldFilename(p) : p \in Persons }
    IN  { [nm \in S |-> <<Line(<<"m", "y", " ", "n", "o", "t", "e", "s">>)>>] : S \in SUBSET names }

InitObsidianReport ==
    /\ db = <<>>
    /\ pc = "obsidian_report"
    /\ IdleTree
    /\ IdleNarrator
    /\ IdleBook
    /\ IdleIndex
    /\ IdleBiography
    /\ IdleRename
    /\ report_destination \in Directories
    /\ frontmatter_tags = FrontmatterTags(<<"A">>)
    /\ person_cursor = 1
    /\ filename = <<>>

InitWriteOutput ==
    /\ db = <<>>
    /\ pc = "write_output"
    /\ IdleTree
    /\ IdleNarrator
    /\ IdleBook
    /\ IdleIndex
    /\ IdleBiography
    /\ IdleRename
    /\ person_cursor = 1
    /\ filename = determine_filename(1, TRUE)
    /\ report_destination \in { (filename :> f) : f \in FileChoices }
    /\ frontmatter_tags \in { FrontmatterTags(o) : o \in FrontmatterOptions }

InitNarrator ==
    /\ db = <<>>
    /\ pc = "narrator"
    /\ IdleTree
    /\ IdleObsidian
    /\ IdleBook
    /\ IdleIndex
    /\ IdleBiography
    /\ IdleRename
    /\ person = None
    /\ first_name = ""
    /\ first_name_used = FALSE
    /\ \E c \in NarratorConfigs :
          /\ verbose = c.verbose
          /\ use_fulldate = c.use_fulldate
          /\ empty_date = c.empty_date
          /\ format_number = c.format
    /\ story = <<>>

InitBook ==
    /\ pc = "extract_key_value_pairs"
    /\ \/ db = <<>> /\ tex_file \in TexFiles
       \/ db \in Databases /\ tex_file \in BookFiles
    /\ IdleTree
    /\ IdleObsidian
    /\ IdleNarrator
    /\ IdleIndex
    /\ IdleBiography
    /\ IdleRename
    /\ maindoc = <<>>
    /\ report_file = <<>>

InitIndex ==
    /\ pc = "format_nobiliary_particle"
    /\ db = <<>>
    /\ IdleTree
    /\ IdleObsidian
    /\ IdleNarrator
    /\ IdleBook
    /\ IdleBiography
    /\ IdleRename
    /\ surname \in Surnames
    /\ stripped_surname = <<>>
    /\ nobility_particle = NoParticle

InitBiography ==
    /\ pc = "write_report"
    /\ db = BiographyDatabase
    /\ IdleTree
    /\ IdleObsidian
    /\ IdleNarrator
    /\ IdleBook
    /\ IdleIndex
    /\ IdleRename
    /\ filter \in Filters
    /\ filtered_subset = Unset
    /\ person_data = get_empty_indiviudal
    /\ biography = <<>>

InitRenameImages ==
    /\ pc = "rename_images"
    /\ db = <<>>
    /\ IdleTree
    /\ IdleObsidian
    /\ IdleNarrator
    /\ IdleBook
    /\ IdleIndex
    /\ IdleBiography
    /\ files \in SUBSET { StoredPaths[m] : m \in DOMAIN StoredPaths }
    /\ media_path = StoredPaths
    /\ media_list \in MediaLists
    /\ media_cursor = 1

InitTree == InitFilter \/ InitDown \/ InitUp

Init ==
    \/ InitTree
    \/ InitObsidianReport
    \/ InitWriteOutput
    \/ InitNarrator
    \/ InitBook
    \/ InitBiography
    \/ InitRenameImages
    \/ InitIndex

Next ==
    \/ Prepare
    \/ AddMatchesCall
    \/ AddMatchesFamily
    \/ ExcludeRootPerson
    \/ ExcludePersons
    \/ WriteReportDown
    \/ apply_henry_filter
    \/ apply_mhenry_filter
    \/ apply_daboville_filter
    \/ apply_mod_reg_filter_aux
    \/ apply_mod_reg_filter
    \/ BeginWriteDown
    \/ WriteGeneration
    \/ WriteLineage
    \/ WriteFileDown
    \/ WriteReportUp
    \/ apply_filter
    \/ BeginWriteUp
    \/ WriteAncestor
    \/ WriteFileUp
    \/ ObsidianPerson
    \/ write_output_to_file
    \/ set_subject
    \/ get_born_string
    \/ get_died_string
    \/ get_buried_string
    \/ get_baptised_string
    \/ get_christened_string
    \/ get_married_string
    \/ get_child_string
    \/ extract_key_value_pairs
    \/ generate_filters
    \/ write_book_item
    \/ write_subfile_info
    \/ write_report_filter
    \/ write_person_info
    \/ append_bio_facts
    \/ rename_images
    \/ rename_images_end
    \/ format_nobiliary_particle

Spec == Init /\ [][Next]_vars

(***************************************************************************)
(* Reference notions the claims are stated in                              *)
(***************************************************************************)
ChildrenOf(p) ==
    UNION { SeqToSet(db[f].children) :
            f \in { g \in 1..Len(db) : db[g].father = p \/ db[g].mother = p } }

PartnersOf(p) ==
    ({ db[f].mother : f \in { g \in 1..Len(db) : db[g].father = p } } \cup
     { db[f].father : f \in { g \in 1..Len(db) : db[g].mother = p } }) \ {None, p}

\* persons at most n parent-to-child links below r (r included)
RECURSIVE DescWithin(_, _)
DescWithin(r, n) ==
    IF n <= 0 THEN {r}
    ELSE LET prev == DescWithin(r, n - 1)
         IN  prev \cup UNION { ChildrenOf(p) : p \in prev }

DescendantFamily(r, n) ==
    DescWithin(r, n) \cup UNION { PartnersOf(p) : p \in DescWithin(r, n) }

FilterPrepared ==
    /\ pc = "prepared"
    /\ root_person # None
    /\ inclusive
    /\ exclude_list = <<>>

(***************************************************************************)
(* Claims                                                                  *)
(***************************************************************************)
\* C1: after prepare(root R, N, Inclusive=1, empty Exclude) apply returns
\* True for R, for every person at most N parent-to-child links below R and
\* for every partner of such a person.
C1_FilterComplete ==
    FilterPrepared =>
        \A p \in DescendantFamily(root_person, max_gen) : apply(p)

\* C2: after prepare(root R, N, Inclusive=1, empty Exclude) every person for
\* whom apply returns True is R, a descendant at most N links below R, or a
\* partner of such a person.
C2_FilterSound ==
    FilterPrepared =>
        \A p \in People(db) :
            apply(p) => p \in DescendantFamily(root_person, max_gen)

\* C2 witness: a prepared rule that matched a partner and left out a
\* descendant who is more than N links below the root
C2_Witness ==
    /\ FilterPrepared
    /\ \E p \in People(db) :
          /\ p \in DescWithin(root_person, max_gen + 2)
          /\ p \notin DescendantFamily(root_person, max_gen)
          /\ ~apply(p)
    /\ \E q \in People(db) :
          /\ q \notin DescWithin(root_person, max_gen)
          /\ apply(q)

IsDown == numbering # ""

IsUp == latex # <<>> \/ (pc = "done" /\ ~IsDown)

\* the descendant report has numbered the persons
DownNumbered ==
    /\ IsDown
    /\ \/ pc \in {"numbered", "write_down", "done"}
       \/ pc = "numbering" /\ stack = <<>> /\ numbering # "Record (Modified Register)"

\* the ancestor report has collected the ancestors
UpCollected ==
    /\ ~IsDown
    /\ \/ pc \in {"write_up"}
       \/ pc = "ancestors" /\ stack = <<>>
       \/ pc = "done" /\ IsUp

Range(f) == { f[x] : x \in DOMAIN f }

BioEntries(out, p) ==
    { i \in 1..Len(out) : out[i].kind = "bio" /\ out[i].person = p }

\* some person has two positions in self.map
ReachedTwice == \E k1, k2 \in DOMAIN map : k1 # k2 /\ map[k1] = map[k2]

\* C3: with Henry, Modified Henry or d'Aboville numbering and either
\* structure, the written report has exactly one biography entry for every
\* person of the traversal, labelled with the person's recorded label, and
\* distinct persons have distinct recorded labels.
C3_OneEntryPerPerson ==
    (pc = "done" /\ IsDown /\ numbering # "Record (Modified Register)") =>
        /\ \A p \in Range(map) :
             /\ Cardinality(BioEntries(outfile, p)) = 1
             /\ \A i \in BioEntries(outfile, p) : outfile[i].kekule = dnumber[p]
        /\ \A p, q \in DOMAIN dnumber : p # q => dnumber[p] # dnumber[q]

\* C3 witness: a written report whose traversal reached a person twice
C3_Witness ==
    /\ pc = "done"
    /\ IsDown
    /\ numbering # "Record (Modified Register)"
    /\ ReachedTwice
    /\ Cardinality(Range(map)) >= 3

\* C4: Henry numbering: the center person is labelled "1" and the recorded
\* label of every other labelled person is the recorded label of one of the
\* person's parents followed by the HENRY symbol of the person's position
\* among that parent's children.
C4_HenryEncodesAncestry ==
    (DownNumbered /\ numbering = "Henry") =>
        /\ dnumber[center_person] = <<"1">>
        /\ \A h \in DOMAIN dnumber \ {center_person} :
             \E p \in DOMAIN dnumber :
                \E k \in 1..Len(ChildRefs(p)) :
                   /\ ChildRefs(p)[k] = h
                   /\ k <= Len(HENRY)
                   /\ dnumber[h] = dnumber[p] \o <<HENRY[k]>>

\* the Modified Henry symbol of the k-th child
ModifiedHenrySymbol(k) ==
    IF k <= 9 THEN Str(k) ELSE <<"(">> \o Str(k) \o <<")">>

\* <<person, label>> for every descent path of at most g persons, the label
\* built with the Modified Henry symbol at every generation
RECURSIVE ModifiedHenryLabels(_)
ModifiedHenryLabels(g) ==
    IF g <= 1 THEN { <<center_person, <<"1">>>> }
    ELSE LET prev == ModifiedHenryLabels(g - 1)
         IN  prev \cup
             UNION { { <<ChildRefs(pl[1])[k], pl[2] \o ModifiedHenrySymbol(k)>> :
                       k \in 1..Len(ChildRefs(pl[1])) } : pl \in prev }

\* C5: Modified Henry numbering: the center person is labelled "1" and at
\* every generation the k-th child of a labelled person gets the parent's
\* label followed by the digit k (k <= 9) or by "(k)" (k >= 10).
C5_ModifiedHenry ==
    (DownNumbered /\ numbering = "Modified Henry") =>
        /\ dnumber[center_person] = <<"1">>
        /\ \A h \in DOMAIN dnumber :
             <<h, dnumber[h]>> \in ModifiedHenryLabels(max_generations)

\* C6: Sosa-Stradonitz numbering: the center person carries the initial
\* number s, and when a person of the traversal carries n, the father
\* carries 2n and the mother 2n + 1.
C6_SosaDoubling ==
    UpCollected =>
        /\ _get_s_s(<<1>>) = Bits(initial_sosa)
        /\ \A k \in DOMAIN map : \A b \in {0, 1} :
             Append(k, b) \in DOMAIN map =>
                _get_s_s(Append(k, b)) = Append(_get_s_s(k), b)

\* position of the first key of person p in the generation order
FirstPosition(p) ==
    LET keys == Flatten(gen_keys)
    IN  CHOOSE i \in 1..Len(keys) :
           /\ map[keys[i]] = p
           /\ \A j \in 1..(i - 1) : map[keys[j]] # p

\* the first generation in which person p occurs
FirstGeneration(p) ==
    CHOOSE g \in 1..Len(gen_keys) :
       /\ \E i \in 1..Len(gen_keys[g]) : map[gen_keys[g][i]] = p
       /\ \A g2 \in 1..(g - 1) :
            \A i \in 1..Len(gen_keys[g2]) : map[gen_keys[g2][i]] # p

\* C7: Record numbering: the distinct persons of the traversal are numbered
\* 1, 2, 3, ... without gaps, a person of an earlier generation has the
\* smaller number, and a person reached several times has the one number of
\* the first occurrence.
C7_RecordNumbering ==
    (DownNumbered /\ numbering = "Record (Modified Register)") =>
        /\ DOMAIN dnumber = Range(map)
        /\ Range(dnumber) = 1..Cardinality(Range(map))
        /\ \A p, q \in DOMAIN dnumber :
             /\ p # q => dnumber[p] # dnumber[q]
             /\ FirstGeneration(p) < FirstGeneration(q) => dnumber[p] < dnumber[q]
        /\ \A p \in DOMAIN dnumber :
             dnumber[p] =
                Cardinality({ q \in Range(map) : FirstPosition(q) <= FirstPosition(p) })

\* C7 witness: Record numbers for a traversal that reached a person in two
\* different generations
C7_Witness ==
    /\ DownNumbered
    /\ numbering = "Record (Modified Register)"
    /\ Cardinality(Range(map)) >= 3
    /\ \E g1, g2 \in 1..Len(gen_keys) :
          /\ g1 < g2
          /\ \E i \in 1..Len(gen_keys[g1]) : \E j \in 1..Len(gen_keys[g2]) :
                map[gen_keys[g1][i]] = map[gen_keys[g2][j]]

\* the parent of person p in the main parents family: father for b = 0,
\* mother for b = 1
MainParent(p, b) ==
    LET fs == { f \in 1..Len(db) : \E i \in 1..Len(db[f].children) :
                                      db[f].children[i] = p }
    IN  IF p = None \/ fs = {} THEN None
        ELSE LET f == CHOOSE x \in fs : \A y \in fs : x <= y
             IN  IF b = 0 THEN db[f].father ELSE db[f].mother

\* the person at position key of the ancestor tree of the center person
RECURSIVE AncestorAt(_)
AncestorAt(key) ==
    IF Len(key) <= 1 THEN center_person
    ELSE MainParent(AncestorAt(SubSeq(key, 1, Len(key) - 1)), key[Len(key)])

GenerationEntries(out) == { i \in 1..Len(out) : out[i].kind = "generation" }

\* C8: generation limit G: the descendant report numbers exactly the persons
\* at most G-1 parent-to-child links below the center person, the ancestor
\* report holds exactly the ancestors at most G-1 main-parent links above,
\* and there are at most G generation groups.
C8_GenerationLimit ==
    /\ DownNumbered =>
         /\ DOMAIN dnumber = DescWithin(center_person, max_generations - 1)
         /\ Range(map) = DOMAIN dnumber
         /\ Len(gen_keys) <= max_generations
    /\ (pc = "done" /\ IsDown) =>
         /\ { outfile[i].person : i \in { j \in 1..Len(outfile) : outfile[j].kind = "bio" } }
              = DescWithin(center_person, max_generations - 1)
         /\ Cardinality(GenerationEntries(outfile)) <= max_generations
    /\ UpCollected =>
         /\ <<1>> \in DOMAIN map
         /\ \A k \in DOMAIN map :
              /\ Len(k) <= max_generations
              /\ map[k] = AncestorAt(k)
              /\ \A b \in {0, 1} :
                   (Len(k) < max_generations /\ MainParent(map[k], b) # None)
                      => Append(k, b) \in DOMAIN map
         /\ generation <= max_generations
    /\ (pc = "done" /\ IsUp) =>
         Cardinality(GenerationEntries(outfile)) <= max_generations

\* C8 witness: a written descendant report for a database with a person
\* below the generation limit
C8_Witness ==
    /\ pc = "done"
    /\ IsDown
    /\ DescWithin(center_person, max_generations) #
          DescWithin(center_person, max_generations - 1)
    /\ Len(gen_keys) = max_generations
    /\ max_generations >= 2

RefEntries(out, p) ==
    { i \in 1..Len(out) : out[i].kind = "ref" /\ out[i].person = p }

KeysOf(p) == { k \in DOMAIN map : map[k] = p }

LowestKeyOf(p) == CHOOSE k \in KeysOf(p) : \A k2 \in KeysOf(p) \ {k} : BigLess(k, k2)

Occurrences(s, x) == Cardinality({ i \in 1..Len(s) : s[i] = x })

\* C9: omit duplicate ancestors: a person with several positions has the
\* one biography at the lowest key; every higher position has only a
\* cross-reference naming its Sosa number and that of the lowest position,
\* and the children of the person's families are not listed again.
C9_OmitDuplicates ==
    (pc = "done" /\ IsUp /\ dupperson) =>
        /\ \A p \in Range(map) :
             /\ Cardinality(BioEntries(outfile, p)) = 1
             /\ \A i \in BioEntries(outfile, p) :
                  outfile[i].kekule = StrBig(_get_s_s(LowestKeyOf(p)))
             /\ Cardinality(RefEntries(outfile, p)) = Cardinality(KeysOf(p)) - 1
             /\ \A k \in KeysOf(p) \ {LowestKeyOf(p)} :
                  \E i \in RefEntries(outfile, p) :
                     /\ outfile[i].kekule = _get_s_s(k)
                     /\ outfile[i].lowest = _get_s_s(LowestKeyOf(p))
        /\ \A f \in 1..Len(db) :
             Occurrences(doc, f) <=
                Cardinality({ p \in Range(map) : p \in {db[f].father, db[f].mother} })

\* C9 witness: a written ancestor report with the option on, children
\* listed, and a person at two positions who has a family with children
C9_Witness ==
    /\ pc = "done"
    /\ IsUp
    /\ dupperson
    /\ listchildren
    /\ \E p \in Range(map) :
          /\ Cardinality(KeysOf(p)) >= 2
          /\ Occurrences(doc, Head(get_family_handle_list(p))) >= 1

\* the recursive traversal has returned to its caller
TraversalReturned ==
    /\ stack = <<>>
    /\ pc \in {"add_matches", "numbering", "ancestors"}

\* some person of the database is their own descendant
HasCycle == \E p \in People(db) : \E c \in ChildrenOf(p) : p \in DescWithin(c, 3)

\* C10: every recursive traversal (add_matches, the numbering filters,
\* apply_filter) terminates, also on a database with a cycle.
C10_Terminates == <>TraversalReturned

\* C10 witness: a traversal that has returned on a database with a cycle
C10_Witness == TraversalReturned /\ HasCycle /\ Cardinality(matches \cup DOMAIN map) >= 3

\* the traversals alone: each handler up to the return of its recursion.
\* The program is sequential, so a step that can be taken is taken.
NextTraversal ==
    \/ Prepare
    \/ AddMatchesCall
    \/ AddMatchesFamily
    \/ WriteReportDown
    \/ apply_henry_filter
    \/ apply_mhenry_filter
    \/ apply_daboville_filter
    \/ apply_mod_reg_filter_aux
    \/ WriteReportUp
    \/ apply_filter

SpecTraversal == InitTree /\ [][NextTraversal]_vars /\ WF_vars(NextTraversal)

\* C11: the Exclude parameter removes exactly the listed persons: after
\* prepare, apply is False for each listed person and, for every other
\* person, the same as with an empty Exclude list.
C11_ExcludeOnlyListed ==
    [][(pc = "exclude_persons" /\ pc' = "prepared") =>
          /\ \A p \in SeqToSet(exclude_list) : ~apply(p)'
          /\ \A p \in People(db) \ SeqToSet(exclude_list) :
                apply(p)' <=> apply(p)]_vars

\* C11 witness: a prepared rule with an excluded person whose child or
\* partner still matches
C11_Witness ==
    /\ pc = "prepared"
    /\ Len(exclude_list) >= 2
    /\ \E p \in SeqToSet(exclude_list) :
          \E q \in (ChildrenOf(p) \cup PartnersOf(p)) \ SeqToSet(exclude_list) :
              apply(q)

\* C12: with Inclusive = 0 the root and the root's partners do not match
\* while every (other) descendant within N generations and every (other)
\* partner of such a descendant matches; with Inclusive # 0 the root matches.
C12_Inclusive ==
    (pc = "prepared" /\ root_person # None /\ exclude_list = <<>>) =>
        IF inclusive
        THEN apply(root_person)
        ELSE /\ ~apply(root_person)
             /\ \A q \in PartnersOf(root_person) : ~apply(q)
             /\ \A p \in DescendantFamily(root_person, max_gen) \
                          ({root_person} \cup PartnersOf(root_person)) : apply(p)

\* person p's file exists under its designated name and holds the content
\* write_output_to_file generates for p
Exported(p) ==
    LET nm == determine_filename(p, TRUE)
    IN  /\ nm \in DOMAIN report_destination
        /\ \E i \in 1..Len(report_destination[nm]) :
              report_destination[nm][i] = Line(<<"I", "D", ":", " ">> \o get_gramps_id(p))

\* C13: ObsidianReport.write_report visits every person of the database; a
\* person with at most one matching file in the destination directory gets
\* the file created or renamed and the generated content written into it (a
\* person with several matching files is skipped).
C13_ExportCoversDatabase ==
    pc = "exported" =>
        \A p \in Persons : Cardinality(file_list(p)) <= 1 => Exported(p)

\* the positions of the identifier lines of a file
IdentifierLines(lines) ==
    { i \in 1..Len(lines) : StripNewline(lines[i]) = IDENTIFIER }

\* the identifier line and all text after it
FromIdentifier(lines) ==
    LET i == CHOOSE i \in IdentifierLines(lines) : TRUE
    IN  SubSeq(lines, i, Len(lines))

\* the tags of the file's "tags: [" line (the first one), each without the
\* blanks around it
TagsOf(lines) ==
    LET tl == { i \in 1..Len(lines) : StartsWith(lines[i], TAG_LINE) }
    IN  IF tl = {} THEN {}
        ELSE LET i == CHOOSE i \in tl : \A j \in tl : i <= j
                 text == SplitOnce(SubSeq(lines[i], Len(TAG_LINE) + 1, Len(lines[i])),
                                   <<"]">>)[1]
             IN  { Strip(t) : t \in SeqToSet(Split(text, <<",">>)) } \ {<<>>}

\* C14: a rewrite by write_output_to_file leaves the file with exactly one
\* identifier line, leaves the identifier line and all text after it
\* unchanged, and loses no tag of the file's "tags: [" line.
C14_ResearchNotesSurvive ==
    [][pc = "write_output" =>
          LET old == report_destination[filename]
              new == report_destination'[filename]
          IN  /\ Cardinality(IdentifierLines(new)) = 1
              /\ IdentifierLines(old) # {} =>
                    FromIdentifier(new) = FromIdentifier(old)
              /\ TagsOf(old) \subseteq TagsOf(new)]_vars

\* C14 witness: a rewritten file that kept research notes below the
\* identifier line and a tag the option does not name
C14_Witness ==
    /\ pc = "write_output"
    /\ LET lines == report_destination[filename]
       IN  /\ Len(lines) > 0
           /\ lines[1] = Line(<<"-", "-", "-">>)
           /\ Len(FromIdentifier(lines)) > 1
           /\ TagsOf(lines) \ SeqToSet(frontmatter_tags) # {}

(***************************************************************************)
(* The narrator's sentences                                                *)
(***************************************************************************)
EventMethods ==
    {"get_born_string", "get_died_string", "get_buried_string",
     "get_baptised_string", "get_christened_string"}

\* the date text and the place text of the subject's event, as the sentence
\* shows them
SubjectDateText ==
    IF person.event.present
    THEN IF use_fulldate THEN person.event.date.text ELSE person.event.date.year
    ELSE empty_date

SubjectPlaceText == IF person.event.present THEN person.event.place ELSE ""

NonEmptyText(t) == t # "" /\ t # "0"

\* the date class by the stated priority: a modifier decides first
StatedDateClass ==
    IF person.event.present /\ person.event.date.modifier THEN "modified"
    ELSE IF person.event.present /\ person.event.date.day_valid THEN "full"
    ELSE IF NonEmptyText(SubjectDateText) THEN "partial"
    ELSE "no"

\* the date class when the modifier and the valid day count only for a date
\* whose text is not empty
TextDateClass ==
    IF ~NonEmptyText(SubjectDateText) THEN "no"
    ELSE IF person.event.present /\ person.event.date.modifier THEN "modified"
    ELSE IF person.event.present /\ person.event.date.day_valid THEN "full"
    ELSE "partial"

NoSentence == <<<<>>, <<>>, <<>>>>

WithPlaceTemplates(method) ==
    CASE method = "get_born_string" ->
            [modified |-> BornTemplates.born_modified_date_with_place, full |-> BornTemplates.born_full_date_with_place,
             partial |-> BornTemplates.born_partial_date_with_place, no |-> BornTemplates.born_no_date_with_place]
      [] method = "get_died_string" ->
            [modified |-> DiedTemplates.died_modified_date_with_place, full |-> DiedTemplates.died_full_date_with_place,
             partial |-> DiedTemplates.died_partial_date_with_place, no |-> DiedTemplates.died_no_date_with_place]
      [] method = "get_buried_string" ->
            [modified |-> BuriedTemplates.buried_modified_date_place, full |-> BuriedTemplates.buried_full_date_place,
             partial |-> BuriedTemplates.buried_partial_date_place, no |-> BuriedTemplates.buried_no_date_place]
      [] method = "get_baptised_string" ->
            [modified |-> BaptisedTemplates.baptised_modified_date_place, full |-> BaptisedTemplates.baptised_full_date_place,
             partial |-> BaptisedTemplates.baptised_partial_date_place, no |-> BaptisedTemplates.baptised_no_date_place]
      [] method = "get_christened_string" ->
            [modified |-> ChristenedTemplates.christened_modified_date_place, full |-> ChristenedTemplates.christened_full_date_place,
             partial |-> ChristenedTemplates.christened_partial_date_place, no |-> ChristenedTemplates.christened_no_date_place]

NoPlaceTemplates(method) ==
    CASE method = "get_born_string" ->
            [modified |-> BornTemplates.born_modified_date_no_place, full |-> BornTemplates.born_full_date_no_place,
             partial |-> BornTemplates.born_partial_date_no_place, no |-> NoSentence]
      [] method = "get_died_string" ->
            [modified |-> DiedTemplates.died_modified_date_no_place, full |-> DiedTemplates.died_full_date_no_place,
             partial |-> DiedTemplates.died_partial_date_no_place, no |-> DiedTemplates.died_no_date_no_place]
      [] method = "get_buried_string" ->
            [modified |-> BuriedTemplates.buried_modified_date_no_place, full |-> BuriedTemplates.buried_full_date_no_place,
             partial |-> BuriedTemplates.buried_partial_date_no_place, no |-> BuriedTemplates.buried_no_date_no_place]
      [] method = "get_baptised_string" ->
            [modified |-> BaptisedTemplates.baptised_modified_date_no_place, full |-> BaptisedTemplates.baptised_full_date_no_place,
             partial |-> BaptisedTemplates.baptised_partial_date_no_place, no |-> BaptisedTemplates.baptised_no_date_no_place]
      [] method = "get_christened_string" ->
            [modified |-> ChristenedTemplates.christened_modified_date_no_place, full |-> ChristenedTemplates.christened_full_date_no_place,
             partial |-> ChristenedTemplates.christened_partial_date_no_place, no |-> ChristenedTemplates.christened_no_date_no_place]

PlaceKeys ==
    {"birth_place", "death_place", "burial_place", "baptism_place", "christening_place"}

DateKeys ==
    {"birth_date", "death_date", "burial_date", "baptism_date",
     "christening_date", "month_year", "modified_date"}

\* the sentence of a call when the date class is class: the template of the
\* class and of the place's presence, at the format index, filled in
SentenceOfClass(call, class) ==
    LET table == IF SubjectPlaceText # "" THEN WithPlaceTemplates(call.method)
                 ELSE NoPlaceTemplates(call.method)
        entry == table[class][format_number + 1]
        withAge == call.flag /\ person.event.present
                   /\ person.event.date.year # "0" /\ person.span # ""
        template == IF call.method # "get_died_string" THEN entry
                    ELSE IF withAge THEN entry[2] ELSE entry[1]
        values == [k \in PlaceKeys \cup DateKeys \cup {"age", "endnotes"} |->
                     IF k \in PlaceKeys THEN SubjectPlaceText
                     ELSE IF k \in DateKeys THEN SubjectDateText
                     ELSE IF k = "age" THEN person.span
                     ELSE ""]
    IN  IF /\ call.method \in {"get_buried_string", "get_baptised_string",
                               "get_christened_string"}
           /\ ~person.event.present
        THEN <<>>
        ELSE Format(template, values)

\* C15, as stated: every sentence about a birth, death, burial, baptism or
\* christening is the template chosen by the priority "modifier, else valid
\* day, else non-empty date text, else no date", in the with-place form
\* exactly when the place text is not empty, at the format index; '' for a
\* burial, baptism or christening without event and for a birth with neither
\* date text nor place text.
C15_StatedSelection ==
    pc = "story" =>
        \A i \in DOMAIN story :
            story[i].method \in EventMethods =>
                story[i].text = SentenceOfClass(story[i], StatedDateClass)

\* C15, amended: the same, where the 'modified date' and the 'full date'
\* variants are chosen only for a date whose text is not empty; a date with a
\* modifier or a valid day but an empty text (a year of 0 when only the year
\* is shown) selects the 'no date' variant.
C15_TemplateSelection ==
    pc = "story" =>
        \A i \in DOMAIN story :
            story[i].method \in EventMethods =>
                story[i].text = SentenceOfClass(story[i], TextDateClass)

\* a burial with a place whose date has a modifier and no year, told by a
\* narrator that shows the year only: the 'no date' sentence is returned
C15_Witness ==
    /\ pc = "story"
    /\ person.event.present
    /\ person.event.date.modifier
    /\ ~NonEmptyText(SubjectDateText)
    /\ person.event.place # ""
    /\ \E i \in DOMAIN story :
          /\ story[i].method = "get_buried_string"
          /\ story[i].text = Format(BuriedTemplates.buried_no_date_place[format_number + 1],
                                    [burial_place |-> person.event.place, endnotes |-> ""])

UsesFirstName(text) == \E k \in DOMAIN text : text[k] = first_name

\* the calls of the story that returned a sentence
Told == { i \in DOMAIN story : story[i].text # <<>> }

\* C16: in the story of a subject with a first name, the first sentence
\* returned uses the first name and no later sentence does, whichever
\* methods are called.
C16_SubjectProtocol ==
    (pc = "story" /\ first_name # "") =>
        \A i \in Told :
            UsesFirstName(story[i].text) <=> (\A j \in Told : i <= j)

\* C17: the sentence get_married_string returns with is_first = False is not
\* the one it returns with is_first = True for the same family, date, place
\* and format (it has the word 'also' in addition).
C17_AlsoMarried ==
    pc = "story" =>
        \A i \in DOMAIN story :
            (story[i].method = "get_married_string" /\ ~story[i].flag) =>
                story[i].text # MarriedText(TRUE)

(***************************************************************************)
(* The entries of the main document                                        *)
(***************************************************************************)
HasEquals(pair) == Contains(pair, <<"=">>)

\* what a line contributes: the dictionary of its key=value pairs when it is
\* enclosed in the markers, nothing otherwise
EntryOf(line) == AddPairs(SelectSeq(Pairs(line), HasEquals), <<>>).dictionary

RECURSIVE Entries(_, _)
Entries(lines, result) ==
    IF lines = <<>> THEN result
    ELSE IF <<"g", "r", "i", "d">> \in DOMAIN EntryOf(Head(lines))
    THEN Entries(Tail(lines),
                 SetItem(result, EntryOf(Head(lines))[<<"g", "r", "i", "d">>], EntryOf(Head(lines))))
    ELSE Entries(Tail(lines), result)

\* C18: extract_key_value_pairs returns, keyed by the lower-cased GrID, the
\* lower-cased pairs of the last enclosed line with that GrID, tag values as
\* booleans; a line that is not enclosed in the markers or has no 'grid' key
\* contributes nothing.
C18_ExtractKeyValuePairs ==
    pc \in {"extracted", "extract_IndexError"} =>
        /\ pc = "extracted"
        /\ maindoc = Entries(tex_file, <<>>)

(***************************************************************************)
(* The nobiliary particle of a surname                                     *)
(***************************************************************************)
\* the listed particles the surname begins with
LeadingParticles ==
    { k \in DOMAIN nobiliary_particles : StartsWith(surname, nobiliary_particles[k]) }

\* the particle the surname is made of: the whole one, 'de la ' rather than
\* 'de '
WholeParticle ==
    nobiliary_particles[CHOOSE k \in LeadingParticles :
        \A j \in LeadingParticles :
            Len(nobiliary_particles[j]) <= Len(nobiliary_particles[k])]

\* C19: for a surname made of a listed particle and a family name,
\* format_nobiliary_particle returns the family name and that particle, the
\* whole particle for 'de la ', 'de las ' and 'de los '; for a surname in
\* which no listed particle occurs it returns the surname unchanged and None.
C19_NobiliaryParticle ==
    pc = "formatted" =>
        /\ LeadingParticles # {} =>
              /\ nobility_particle = Particle(WholeParticle)
              /\ stripped_surname =
                    SubSeq(surname, Len(WholeParticle) + 1, Len(surname))
        /\ (\A k \in DOMAIN nobiliary_particles :
                ~Contains(Lower(surname), nobiliary_particles[k])) =>
              /\ nobility_particle = NoParticle
              /\ stripped_surname = surname

(***************************************************************************)
(* The rule of a book entry and the entry's report                         *)
(***************************************************************************)
\* the persons the report gave an entry: the numbered descendants and the
\* mates written for them
ReportPersons ==
    { outfile[i].person : i \in { j \in DOMAIN outfile : outfile[j].kind = "bio" } }
    \cup
    ({ mate_handle(outfile[i].person, outfile[i].family) :
         i \in { j \in DOMAIN outfile : outfile[j].kind = "mate" } } \ {None})

\* C20: when the report of a 'down' entry with generations = G is written,
\* the persons matched by the entry's rule (N = G - 1, Inclusive = 1, no
\* Exclude) are the persons the report gave an entry.
C20_FilterCoversReport ==
    (pc = "done" /\ DOMAIN maindoc # {} /\ structure = "by generation") =>
        { p \in People(db) : apply(p) } = ReportPersons

(***************************************************************************)
(* The \subfile lines of the main document                                 *)
(***************************************************************************)
\* the argument of a \subfile{...} line
SubfileArgument(line) == SubSeq(line, Len(SUBFILE) + 1, Len(line) - 2)

\* line i of the rewritten main document is the \subfile line of the entry
\* of the report that was written: the line before it is the entry's
SubfileLineOfReport(i) ==
    /\ StartsWith(tex_file[i], SUBFILE)
    /\ \E id \in DOMAIN maindoc :
          /\ EntryOf(tex_file[i - 1]) = maindoc[id]
          /\ Upper(id.text) = get_gramps_id(center_person)

\* C21: after write_subfile_info, the argument of the \subfile line of an
\* entry is the base name, without ".tex", of the file the entry's report
\* wrote, for the direction 'down' (the default) and for the direction 'up'.
C21_SubfileNamesReportFile ==
    pc = "subfiles" =>
        \A i \in 2..Len(tex_file) :
            SubfileLineOfReport(i) =>
                SubfileArgument(tex_file[i]) \o <<".", "t", "e", "x">>
                    = basename(report_file)

\* the same for the entries of direction 'up' alone
UpSubfileNamesReportFile ==
    (pc = "subfiles" /\ structure = "") =>
        \A i \in 2..Len(tex_file) :
            SubfileLineOfReport(i) =>
                SubfileArgument(tex_file[i]) \o <<".", "t", "e", "x">>
                    = basename(report_file)

UpSubfileWritten ==
    /\ pc = "subfiles"
    /\ structure = ""
    /\ \E i \in 2..Len(tex_file) : SubfileLineOfReport(i)

(***************************************************************************)
(* The partner entries of the ancestor report                              *)
(***************************************************************************)
\* the partner entries of the written ancestor report, in the order written
PartnerEntries == SelectSeq(outfile, LAMBDA e : e.kind = "mate")

\* C22: the written ancestor report has one partner entry for each family of
\* the center person, labelled with the center person's number and 'a',
\* 'b', ...; the data written into the i-th entry are the data of the
\* partner of the i-th family and of nobody else.
C22_PartnerEntries ==
    (pc = "done" /\ IsUp) =>
        LET fams == get_family_handle_list(center_person)
        IN  /\ Len(PartnerEntries) = Len(fams)
            /\ \A i \in DOMAIN PartnerEntries :
                  /\ PartnerEntries[i].kekule =
                        StrBig(_get_s_s(<<1>>)) \o letter(i - 1)
                  /\ \A k \in DOMAIN PartnerEntries[i].written :
                        PartnerEntries[i].written[k]
                            = mate_handle(center_person, fams[i])

(***************************************************************************)
(* The marking of the persons a filter leaves out                          *)
(***************************************************************************)
Commands(text) == { text[i].command : i \in DOMAIN text }

\* a \filteredperson stub: no \label, no life data, a \filteredpersonref
\* that names the filter
IsStub(text) ==
    /\ text # <<>>
    /\ text[1].command = "filteredperson{"
    /\ Commands(text) \cap {"label", "geboren", "index"} = {}
    /\ \E i \in DOMAIN text :
          /\ text[i].command = "filteredpersonref"
          /\ text[i].second = filter.name

\* a full biography with \label
IsFullBiography(text) ==
    /\ text # <<>>
    /\ text[1].command = "label"
    /\ Commands(text) \cap {"filteredperson{", "filteredpersonref"} = {}

\* the person of the biography is in the result set of the filter
InResultSet ==
    \E p \in filter.result : person_data.GrID = get_gramps_id(p)

\* C23: with a filter selected, the biography of a person is a
\* \filteredperson stub exactly when the person is not in the filter's
\* result set, and a full biography with \label exactly when the person is
\* in it, for every result set.
C23_FilteredMarking ==
    (pc = "biography" /\ filter.selected) =>
        /\ IsStub(biography) <=> ~InResultSet
        /\ IsFullBiography(biography) <=> InResultSet

\* the same for the filters whose result set is not empty
NonEmptyFilteredMarking ==
    (pc = "biography" /\ filter.selected /\ filter.result # {}) =>
        /\ IsStub(biography) <=> ~InResultSet
        /\ IsFullBiography(biography) <=> InResultSet

\* a stub was written for a person with a vital event
StubWritten ==
    /\ pc = "biography"
    /\ IsStub(biography)
    /\ person_data.geboren # <<>>

(***************************************************************************)
(* The renamed image files                                                 *)
(***************************************************************************)
\* C24: while and after the script runs, a path stored in the database that
\* is no longer the path stored before the script is the name of a file
\* that exists: the stored path changes only when the file was renamed.
C24_RenameConsistent ==
    pc \in {"rename_images", "images_renamed"} =>
        \A m \in DOMAIN media_path :
            media_path[m] # StoredPaths[m] => media_path[m] \in files

\* the same for the media whose file existed when the script started: the
\* stored path of an image is the name of the renamed file
RenamedFileFollows ==
    pc = "images_renamed" =>
        \A m \in DOMAIN media_path :
            (media_path[m] # StoredPaths[m] /\ media_path[m] \notin files)
                => (\A f \in files : basename(f) # basename(StoredPaths[m]))

(***************************************************************************)
(* The three formats of the sentence templates                             *)
(***************************************************************************)
\* the literals of the LaTeX templates that end in "\place{", and the
\* literals that begin with "}"
OpensPlace ==
    {", \\place{", "\\geb\\,\\place{", "\\tod\\,\\place{",
     "\\begraben\\,\\place{", "\\taufe\\,\\place{"}

ClosesPlace == {"}", "} (", "},"}

\* the places of the events the narrator is given
PlaceNames == { e.place : e \in Events \ {NoEvent} } \ {""}

\* every place of a sentence stands between "\place{" and "}"
PlaceWrapped(text) ==
    \A k \in DOMAIN text :
        text[k] \in PlaceNames =>
            /\ k > 1
            /\ k < Len(text)
            /\ text[k - 1] \in OpensPlace
            /\ text[k + 1] \in ClosesPlace

\* the data fields of a template: the dates, places, ages and spouses it
\* tells; the endnotes are references, not data of the event
Fields(template) ==
    { template[i].slot : i \in DOMAIN template } \ {"", "endnotes"}

\* the templates of one name, one for each format, carry the same fields in
\* format f as in the first format
SameFields(versions, f) == Fields(versions[f]) = Fields(versions[1])

\* the same for the names that hold a list of templates for each format
SameFieldsOfList(versions, f) ==
    \A k \in DOMAIN versions[1] : Fields(versions[f][k]) = Fields(versions[1][k])

\* the marriage and partner names that hold, for each format, one template
\* for each kind of date
DatedNames ==
    {"marriage_first_date_place", "marriage_also_date_place",
     "marriage_first_date", "marriage_also_date",
     "unmarried_first_date_place", "unmarried_also_date_place",
     "unmarried_first_date", "unmarried_also_date",
     "relationship_first_date_place", "relationship_also_date_place",
     "relationship_first_date", "relationship_also_date"}

\* the templates of the narrator's format carry the fields of the
\* normal-text templates
SameFieldsInFormat ==
    pc = "narrator" =>
        /\ \A name \in DOMAIN BornTemplates :
              SameFields(BornTemplates[name], format_number + 1)
        /\ \A name \in DOMAIN DiedTemplates :
              SameFieldsOfList(DiedTemplates[name], format_number + 1)
        /\ \A name \in DOMAIN BuriedTemplates :
              SameFields(BuriedTemplates[name], format_number + 1)
        /\ \A name \in DOMAIN BaptisedTemplates :
              SameFields(BaptisedTemplates[name], format_number + 1)
        /\ \A name \in DOMAIN ChristenedTemplates :
              SameFields(ChristenedTemplates[name], format_number + 1)
        /\ \A name \in DOMAIN MarriageTemplates :
              IF name \in DatedNames
              THEN SameFieldsOfList(MarriageTemplates[name], format_number + 1)
              ELSE SameFields(MarriageTemplates[name], format_number + 1)

\* C25: in the LaTeX format every sentence that tells a place wraps it as
\* \place{...}, and the templates of every event carry the same data fields
\* in all three formats.
C25_FormatConsistency ==
    /\ (pc = "story" /\ format_number = FORMAT_LATEX) =>
          \A i \in DOMAIN story : PlaceWrapped(story[i].text)
    /\ SameFieldsInFormat

\* the sentences of the LaTeX format other than the birth sentences wrap the
\* place
PlaceWrappedButBorn ==
    (pc = "story" /\ format_number = FORMAT_LATEX) =>
        \A i \in DOMAIN story :
            story[i].method # "get_born_string" => PlaceWrapped(story[i].text)

\* a sentence of the LaTeX format other than a birth sentence tells a place
PlaceTold ==
    /\ pc = "story"
    /\ format_number = FORMAT_LATEX
    /\ \E i \in DOMAIN story :
          /\ story[i].method # "get_born_string"
          /\ \E k \in DOMAIN story[i].text : story[i].text[k] \in PlaceNames

====
